---------------------------- MODULE Spec2Model ----------------------------
(***************************************************************************)
(* Model of the invocation core of persistent-assistant:                   *)
(*   - the per-topic task queue            (queue.ts, in src/src/index.ts) *)
(*   - the session store                   (src/src/session.ts)            *)
(*   - the Claude subprocess orchestrator  (src/src/claude.ts)             *)
(*   - the Telegram adapter's queued task  (bot.ts, src/unnamed/part_007)  *)
(*                                                                         *)
(* JavaScript runs one macrotask at a time; a chain of promise             *)
(* continuations (microtasks) started by one event runs to completion      *)
(* before the next event is handled.  Each action below is therefore one   *)
(* event together with the whole chain of continuations it triggers.       *)
(***************************************************************************)
EXTENDS Integers, Sequences, FiniteSets, TLC

\* F applied to the value of e, with e evaluated once.
With(e, F(_)) == CHOOSE r \in { F(x) : x \in {e} } : TRUE

(***************************************************************************)
(* Text.  A string is a sequence of chunks; a chunk is a named piece of    *)
(* text with its length in characters.  A chunk whose n is smaller than    *)
(* the full length of the piece is a proper prefix of it (the result of a  *)
(* slice).                                                                 *)
(***************************************************************************)
PhraseLen(s) ==
  CASE s = "hello" -> 5
    [] s = "hi" -> 2
    [] s = "working on it" -> 13
    [] s = "already in use" -> 14
    [] s = "No session found" -> 16
    [] s = "LONG" -> 3900
    [] s = "need permission" -> 15
    [] s = "Error: " -> 7
    [] s = "Spawn error: " -> 13
    [] s = "Claude exited with code " -> 24
    [] s = "0" -> 1
    [] s = "1" -> 1
    [] s = "null" -> 4
    [] s = "ENOENT" -> 6
    [] s = "(empty response)" -> 16
    [] s = "(Timed out - partial response below)" -> 54
    [] s = "(Timed out with no response text)" -> 147
    [] s = "(No response received)" -> 58

\* The text made of the whole piece s.
T(s) == << [s |-> s, n |-> PhraseLen(s)] >>

\* String.prototype.slice(0, limit): the first limit characters.
RECURSIVE Slice(_, _)
Slice(t, limit) ==
  IF t = << >> \/ limit <= 0 THEN << >>
  ELSE IF Head(t).n <= limit
       THEN << Head(t) >> \o Slice(Tail(t), limit - Head(t).n)
       ELSE << [s |-> Head(t).s, n |-> limit] >>

\* String.prototype.includes(phrase) for a phrase that is one of the pieces:
\* the text holds the piece in full.
Includes(t, phrase) ==
  \E i \in 1..Len(t) : t[i].s = phrase /\ t[i].n = PhraseLen(phrase)


(***************************************************************************)
(* Subprocess output.  stdout is the sequence of its non-empty lines.  A   *)
(* line is a record: type "bad" is a line JSON.parse rejects, "assistant"  *)
(* carries content blocks, "result" is the final record, any other type    *)
(* ("system") is only counted for the log.  A field the JSON object lacks  *)
(* has the falsy value of its kind (<< >>, 0, FALSE).                       *)
(***************************************************************************)
Block(type, name, text) == [type |-> type, name |-> name, text |-> text]

Line(type, content, result, session_id, duration_ms, is_error, denials) ==
  [type |-> type, content |-> content, result |-> result,
   session_id |-> session_id, duration_ms |-> duration_ms,
   is_error |-> is_error, permission_denials |-> denials]

BadLine == Line("bad", << >>, << >>, 0, 0, FALSE, << >>)
SystemLine == Line("system", << >>, << >>, 0, 0, FALSE, << >>)
AssistantLine(content) == Line("assistant", content, << >>, 0, 0, FALSE, << >>)
ResultLine(result, session_id, duration_ms, is_error, denials) ==
  Line("result", << >>, result, session_id, duration_ms, is_error, denials)

\* claude.ts:65-99, reduced to the tool's name: the summary string is display
\* text that no decision reads.
summarizeToolInput(toolName) == toolName

\* The locals of the close handler before the first line is read.
ParseStart(sessionId) ==
  [toolCalls |-> << >>, assistantText |-> << >>, finalResult |-> << >>,
   sessionIdFromOutput |-> sessionId, durationMs |-> 0, isError |-> FALSE,
   permissionDenials |-> << >>]

\* One content block of an assistant record.
ParseBlock(acc, block) ==
  LET a1 == IF block.type = "tool_use"
            THEN [acc EXCEPT !.toolCalls = Append(@, summarizeToolInput(block.name))]
            ELSE acc
  IN IF block.type = "text" /\ block.text # << >>
     THEN [a1 EXCEPT !.assistantText = @ \o block.text]
     ELSE a1

RECURSIVE ParseBlocks(_, _)
ParseBlocks(acc, content) ==
  IF content = << >> THEN acc
  ELSE ParseBlocks(ParseBlock(acc, Head(content)), Tail(content))

\* Mutant of FinalText: the accumulated assistant text is preferred.
FinalTextAssistantFirst(result, assistantText) ==
  IF assistantText # << >> THEN assistantText
  ELSE IF result # << >> THEN result
  ELSE T("(empty response)")

\* obj.result || assistantText || "(empty response)"
FinalText(result, assistantText) ==
  IF result # << >> THEN result
  ELSE IF assistantText # << >> THEN assistantText
  ELSE T("(empty response)")

\* Mutant of ParseLine: a bad line throws away what was read before it.
ParseLineAbort(acc, line, sessionId) ==
  IF line.type = "bad" THEN ParseStart(sessionId)
  ELSE
    LET a1 == IF line.type = "assistant" /\ line.content # << >>
              THEN ParseBlocks(acc, line.content)
              ELSE acc
    IN IF line.type = "result"
       THEN [a1 EXCEPT
               !.finalResult = FinalText(line.result, a1.assistantText),
               !.sessionIdFromOutput =
                  IF line.session_id # 0 THEN line.session_id ELSE sessionId,
               !.durationMs = line.duration_ms,
               !.isError = line.is_error,
               !.permissionDenials = line.permission_denials]
       ELSE a1

\* The body of the loop over the lines; the try/catch skips a bad line.
ParseLine(acc, line, sessionId) ==
  IF line.type = "bad" THEN acc
  ELSE
    LET a1 == IF line.type = "assistant" /\ line.content # << >>
              THEN ParseBlocks(acc, line.content)
              ELSE acc
    IN IF line.type = "result"
       THEN [a1 EXCEPT
               !.finalResult = FinalText(line.result, a1.assistantText),
               !.sessionIdFromOutput =
                  IF line.session_id # 0 THEN line.session_id ELSE sessionId,
               !.durationMs = line.duration_ms,
               !.isError = line.is_error,
               !.permissionDenials = line.permission_denials]
       ELSE a1

RECURSIVE ParseLines(_, _, _)
ParseLines(acc, lines, sessionId) ==
  IF lines = << >> THEN acc
  ELSE ParseLines(ParseLine(acc, Head(lines), sessionId), Tail(lines), sessionId)

ClaudeResult(result, sessionId, durationMs, isError, toolCalls, denials) ==
  [result |-> result, sessionId |-> sessionId, durationMs |-> durationMs,
   isError |-> isError, toolCalls |-> toolCalls, permissionDenials |-> denials]

ERROR_SLICE == 4000
TIMEOUT_SLICE == 3800
FALLBACK_SLICE == 4000

\* Exit codes: 0, 1, and Killed for the null code of a process ended by a signal.
Killed == -1
\* Mutant of CodeText: the message always names code 1.
CodeTextOne(code) == T("1")

CodeText(code) == IF code = 0 THEN T("0") ELSE IF code = 1 THEN T("1") ELSE T("null")

\* Mutant of FallbackText: the partial text is returned without the marker.
FallbackTextNoMarker(wasTimedOut, assistantText) ==
  IF wasTimedOut /\ assistantText # << >> THEN Slice(assistantText, TIMEOUT_SLICE)
  ELSE IF wasTimedOut THEN T("(Timed out with no response text)")
  ELSE IF assistantText # << >> THEN Slice(assistantText, FALLBACK_SLICE)
  ELSE T("(No response received)")

\* Mutant of FallbackText: without a timeout the generic message is returned
\* whether or not there is assistant text.
FallbackTextGeneric(wasTimedOut, assistantText) ==
  IF wasTimedOut /\ assistantText # << >>
  THEN T("(Timed out - partial response below)") \o Slice(assistantText, TIMEOUT_SLICE)
  ELSE IF wasTimedOut THEN T("(Timed out with no response text)")
  ELSE T("(No response received)")

\* No result line found: the fallback text.
FallbackText(wasTimedOut, assistantText) ==
  IF wasTimedOut /\ assistantText # << >>
  THEN T("(Timed out - partial response below)") \o Slice(assistantText, TIMEOUT_SLICE)
  ELSE IF wasTimedOut THEN T("(Timed out with no response text)")
  ELSE IF assistantText # << >> THEN Slice(assistantText, FALLBACK_SLICE)
  ELSE T("(No response received)")

\* Mutant of FallbackIsError: a reply with text is never an error.
FallbackIsErrorTextOnly(wasTimedOut, assistantText) == assistantText = << >>

\* isError: wasTimedOut || !assistantText
FallbackIsError(wasTimedOut, assistantText) == wasTimedOut \/ assistantText = << >>

\* proc.on("close"): the value spawnClaude's promise resolves with.
OnClose(sessionId, code, stdout, stderr, wasTimedOut) ==
  IF code # 0 /\ stdout = << >>
  THEN LET errorMsg == IF stderr # << >> THEN stderr
                       ELSE T("Claude exited with code ") \o CodeText(code)
       IN ClaudeResult(T("Error: ") \o Slice(errorMsg, ERROR_SLICE),
                       sessionId, 0, TRUE, << >>, << >>)
  ELSE LET p == ParseLines(ParseStart(sessionId), stdout, sessionId)
       IN IF p.finalResult # << >>
          THEN ClaudeResult(p.finalResult, p.sessionIdFromOutput, p.durationMs,
                            p.isError, p.toolCalls, p.permissionDenials)
          ELSE ClaudeResult(FallbackText(wasTimedOut, p.assistantText),
                            sessionId, 0,
                            FallbackIsError(wasTimedOut, p.assistantText),
                            p.toolCalls, p.permissionDenials)

\* Mutant of OnError: the spawn error is reported without the error flag.
OnErrorNoFlag(sessionId, message) ==
  ClaudeResult(T("Spawn error: ") \o message, sessionId, 0, FALSE, << >>, << >>)

\* proc.on("error"): spawn failed.
OnError(sessionId, message) ==
  ClaudeResult(T("Spawn error: ") \o message, sessionId, 0, TRUE, << >>, << >>)

\* What one subprocess run delivers: an "error" event, or a "close".
ProcOutput(event, code, stdout, stderr, wasTimedOut) ==
  [event |-> event, code |-> code, stdout |-> stdout, stderr |-> stderr,
   wasTimedOut |-> wasTimedOut]

\* spawnClaude: the result of one subprocess run.
spawnClaude(sessionId, out) ==
  IF out.event = "error" THEN OnError(sessionId, out.stderr)
  ELSE OnClose(sessionId, out.code, out.stdout, out.stderr, out.wasTimedOut)


(***************************************************************************)
(* Session store (session.ts).  The disk holds one record per topic under  *)
(* SESSIONS_DIR and the legacy single-record file; uuid is the source of   *)
(* crypto.randomUUID(): every call returns an id never returned before.    *)
(***************************************************************************)
Keys == {"general", "t1"}

SessionState(sessionId, createdAt, messageCount) ==
  [sessionId |-> sessionId, createdAt |-> createdAt, messageCount |-> messageCount]

\* loadState returns null: no readable record.
NoSession == SessionState(0, 0, 0)

Disk(files, legacy, uuid) == [files |-> files, legacy |-> legacy, uuid |-> uuid]

loadState(d, topicId) == d.files[topicId]

saveState(d, topicId, state) == [d EXCEPT !.files[topicId] = state]

\* A fresh SessionState: randomUUID(), new Date(), messageCount 0.
FreshState(d) == SessionState(d.uuid, d.uuid, 0)

\* Mutant of getOrCreateSession: the created session is not written.
getOrCreateUnsaved(d, topicId) ==
  With(loadState(d, topicId), LAMBDA existing :
    IF existing # NoSession THEN [ret |-> existing, disk |-> d]
    ELSE IF topicId = "general" /\ d.legacy # NoSession
    THEN [ret |-> d.legacy, disk |-> saveState(d, topicId, d.legacy)]
    ELSE [ret |-> FreshState(d), disk |-> [d EXCEPT !.uuid = @ + 1]])

\* Mutant of getOrCreateSession: the legacy record is imported for any
\* topic.
getOrCreateImportAny(d, topicId) ==
  With(loadState(d, topicId), LAMBDA existing :
    IF existing # NoSession THEN [ret |-> existing, disk |-> d]
    ELSE IF d.legacy # NoSession
    THEN [ret |-> d.legacy, disk |-> saveState(d, topicId, d.legacy)]
    ELSE [ret |-> FreshState(d),
          disk |-> [saveState(d, topicId, FreshState(d)) EXCEPT !.uuid = @ + 1]])

getOrCreateSession(d, topicId) ==
  With(loadState(d, topicId), LAMBDA existing :
    IF existing # NoSession THEN [ret |-> existing, disk |-> d]
    ELSE IF topicId = "general" /\ d.legacy # NoSession
    THEN [ret |-> d.legacy, disk |-> saveState(d, topicId, d.legacy)]
    ELSE [ret |-> FreshState(d),
          disk |-> [saveState(d, topicId, FreshState(d)) EXCEPT !.uuid = @ + 1]])

\* Mutant of newSession: an existing record keeps its sessionId and only its
\* counter is reset.
newSessionKeepId(d, topicId) ==
  With(IF loadState(d, topicId) # NoSession
       THEN [loadState(d, topicId) EXCEPT !.messageCount = 0]
       ELSE FreshState(d), LAMBDA state :
    [ret |-> state,
     disk |-> [saveState(d, topicId, state) EXCEPT !.uuid = @ + 1]])

newSession(d, topicId) ==
  [ret |-> FreshState(d),
   disk |-> [saveState(d, topicId, FreshState(d)) EXCEPT !.uuid = @ + 1]]

incrementMessage(d, topicId) ==
  With(getOrCreateSession(d, topicId), LAMBDA g :
    With([g.ret EXCEPT !.messageCount = @ + 1], LAMBDA state :
      [ret |-> state, disk |-> saveState(g.disk, topicId, state)]))

getSessionStatus(d, topicId) == getOrCreateSession(d, topicId)

\* getAllSessions: the topics with a record that has a sessionId.
getAllSessions(d) == {k \in Keys : d.files[k] # NoSession /\ d.files[k].sessionId # 0}


(***************************************************************************)
(* State.                                                                  *)
(*   queues, processing   the queue module's Map and Set                   *)
(*   tasks                every task handed to enqueue: its key, its       *)
(*                        promise, and the locals of its async function    *)
(*   disk                 the session files and the UUID source            *)
(*   activeSessions       createBot's Set of session ids                   *)
(*   lastGot              history: per key, the sessionId returned by the  *)
(*                        last getOrCreateSession since the last           *)
(*                        newSession (0: none)                             *)
(*   nextUpdate           the number of the next Telegram update            *)
(*   pin, pout            the inputs and the result of one spawnClaude     *)
(*                        call checked on its own (SpecParse)              *)
(*   store                one session-store call checked on its own        *)
(*                        (SpecStore)                                      *)
(*   perm                 createBot's pendingPermissions and the locals of *)
(*                        the processAndRespond calls (SpecPerm)           *)
(*   dd                   the file of processed update ids and the text    *)
(*                        and photo handlers (SpecDedup)                   *)
(*   em                   the email bridge: mailbox, processed ids, polls, *)
(*                        queue and sessions (SpecEmail)                   *)
(*   al                   ctx.chat?.id of the update handled last          *)
(*                        (SpecAllow)                                      *)
(*   sp                   one splitMessage call checked on its own         *)
(*                        (SpecSplit)                                      *)
(*   pg                   one subprocess with its progress timer           *)
(*                        (SpecProgress)                                   *)
(***************************************************************************)
VARIABLES queues, processing, tasks, disk, activeSessions, lastGot, nextUpdate,
          pin, pout, store, perm, dd, em, al, sp, pg

vars == << queues, processing, tasks, disk, activeSessions, lastGot, nextUpdate,
           pin, pout, store, perm, dd, em, al, sp, pg >>

\* The variables of the parts that are examined on their own (the session
\* store under write failures):
\*   store    one call of a session-store operation: the disk, the
\*            operation, its key, the outcomes of the writes, and what the
\*            call did
\*   perm     pending: pendingPermissions; handler: for every update, how
\*            far its processAndRespond got and its locals (the text is
\*            gone once the reply is sent; extraTools and by are kept as
\*            history; prompted: the reply ended with the permission
\*            prompt); started: per key, the tasks in the order in which
\*            they were invoked
\*   dd       file: _processed_updates.json; next: the id of the next new
\*            update; inflight: per examined update, the photo handlers
\*            waiting for their download; handed: per examined update,
\*            the number of calls of processAndRespond made for it;
\*            typing: per examined update, the calls of processAndRespond
\*            waiting for sendTyping; enqueued: per examined update, the
\*            number of calls of enqueue made for it
\*   em       mode: plus-address or keyword; mail: the messages in the
\*            mailbox; processedIds; sessions, activeSessions, uuid: the
\*            bridge's session file, its Set, and the UUID source; polls:
\*            the poll() calls and the emails each has still to enqueue;
\*            queue, running: the FIFO of key "email" and the task being
\*            executed; runs: history, every runClaude call made
\*   al       the chat id of the update handled last (NoChat: none yet)
\*   sp       the text given to splitMessage and the chunks it returned
\*   pg       one running subprocess and its progress timer: the output
\*            received so far, progressToolCount, and every call of the
\*            progress sink (emitted is history: the tool-use blocks output
\*            before the call)
ext == << store, perm, dd, em, al, sp, pg >>

\* Telegram updates (text messages and commands) are numbered from 1; the
\* task made for a text message is named by the number of its update.
MaxUpdates == 3

TaskIds == 1..MaxUpdates

NoResult == ClaudeResult(<< >>, 0, 0, FALSE, << >>, << >>)

\* A task: key and promise belong to the queue (Task<T> and the Promise enqueue
\* returns); bad says whether child_process.spawn throws for its message;
\* session, isFirst, modes are the locals of the queued function: the session
\* it captured and the mode (useResume) of every subprocess it spawned;
\* outcome is how the function ended; value is what the promise resolved with.
\* The locals are gone once the function has ended.
NoTask ==
  [key |-> "", bad |-> FALSE, phase |-> "none", promise |-> "none",
   session |-> 0, isFirst |-> FALSE, modes |-> << >>, outcome |-> "none",
   value |-> NoResult]

\* The program state as one record, so that the synchronous code can be
\* written as functions from state to state.
St ==
  [queues |-> queues, processing |-> processing, tasks |-> tasks, disk |-> disk,
   activeSessions |-> activeSessions, lastGot |-> lastGot]

Becomes(s) ==
  /\ queues' = s.queues
  /\ processing' = s.processing
  /\ tasks' = s.tasks
  /\ disk' = s.disk
  /\ activeSessions' = s.activeSessions
  /\ lastGot' = s.lastGot

\* The session arguments of the command line: --resume <id> or
\* --session-id <id>.
SessionArgs(sessionId, useResume) ==
  IF useResume THEN << "--resume", sessionId >> ELSE << "--session-id", sessionId >>

\* Mutant of FirstAttempt: the first spawn always resumes.
FirstAttemptResume(isFirstMessage) == TRUE

\* The useResume argument of runClaude's first spawn: !isFirstMessage.
FirstAttempt(isFirstMessage) == ~isFirstMessage

(***************************************************************************)
(* The queued function of processAndRespond (part_007:162-190).            *)
(***************************************************************************)
\* Up to the first await: getOrCreateSession, isFirst, runClaude ->
\* spawnClaude -> spawn.  When spawn throws, the function rejects at once.
TaskStart(s, t) ==
  With(getOrCreateSession(s.disk, s.tasks[t].key), LAMBDA g :
    LET k == s.tasks[t].key
        isFirst == g.ret.sessionId \notin s.activeSessions
    IN IF s.tasks[t].bad
       THEN [s EXCEPT !.disk = g.disk, !.lastGot[k] = g.ret.sessionId,
                      !.tasks[t] = [NoTask EXCEPT !.key = k, !.bad = TRUE,
                                                  !.phase = "done",
                                                  !.promise = "pending",
                                                  !.outcome = "threw"]]
       ELSE [s EXCEPT !.disk = g.disk, !.lastGot[k] = g.ret.sessionId,
                      !.tasks[t].session = g.ret.sessionId,
                      !.tasks[t].isFirst = isFirst,
                      !.tasks[t].phase = "running",
                      !.tasks[t].modes = << FirstAttempt(isFirst) >>])

\* Mutant of CountsAsMessage: every completed invocation is counted.
CountsAlways(result) == TRUE

\* if (!claudeResult.isError)
CountsAsMessage(result) == ~result.isError

\* Mutant of TaskFinish: the session marked active is the one the key has
\* now, not the one the task captured.
TaskFinishCurrent(s, t, result) ==
  LET k == s.tasks[t].key
      done == [NoTask EXCEPT !.key = k, !.phase = "done", !.promise = "pending",
                             !.outcome = "returned"]
  IN IF CountsAsMessage(result)
     THEN With(incrementMessage(s.disk, k), LAMBDA inc :
            [s EXCEPT !.activeSessions = @ \cup {inc.ret.sessionId},
                      !.disk = inc.disk,
                      !.lastGot[k] = inc.ret.sessionId,
                      !.tasks[t] = done])
     ELSE [s EXCEPT !.tasks[t] = done]

\* Mutant of TaskFinish: the session id reported by the final record is
\* stored for the key.
TaskFinishAdopt(s, t, result) ==
  LET k == s.tasks[t].key
      done == [NoTask EXCEPT !.key = k, !.phase = "done", !.promise = "pending",
                             !.outcome = "returned"]
  IN IF CountsAsMessage(result)
     THEN With(incrementMessage(s.disk, k), LAMBDA inc :
            [s EXCEPT !.activeSessions = @ \cup {s.tasks[t].session},
                      !.disk = saveState(inc.disk, k,
                                         [inc.ret EXCEPT !.sessionId = result.sessionId]),
                      !.lastGot[k] = inc.ret.sessionId,
                      !.tasks[t] = done])
     ELSE [s EXCEPT !.tasks[t] = done]

\* After runClaude returned: the bookkeeping, then the function returns.
TaskFinish(s, t, result) ==
  LET k == s.tasks[t].key
      done == [NoTask EXCEPT !.key = k, !.phase = "done", !.promise = "pending",
                             !.outcome = "returned"]
  IN IF CountsAsMessage(result)
     THEN With(incrementMessage(s.disk, k), LAMBDA inc :
            [s EXCEPT !.activeSessions = @ \cup {s.tasks[t].session},
                      !.disk = inc.disk,
                      !.lastGot[k] = inc.ret.sessionId,
                      !.tasks[t] = done])
     ELSE [s EXCEPT !.tasks[t] = done]

(***************************************************************************)
(* runClaude (claude.ts:288-310).                                          *)
(***************************************************************************)
\* Mutant of RetryDecision: the retry's result is examined like the first.
RetryDecisionLoop(attempt, result) ==
  IF result.isError /\ Includes(result.result, "already in use")
  THEN "resume"
  ELSE IF result.isError /\ Includes(result.result, "No session found")
  THEN "create"
  ELSE "return"

\* What runClaude does with the result of its attempt-th spawn: retry in
\* "resume" or "create" mode, or "return" the result.  The result of the
\* second spawn is returned as it is.
RetryDecision(attempt, result) ==
  IF attempt = 1 /\ result.isError /\ Includes(result.result, "already in use")
  THEN "resume"
  ELSE IF attempt = 1 /\ result.isError /\ Includes(result.result, "No session found")
  THEN "create"
  ELSE "return"

(***************************************************************************)
(* The queue (index.ts:67-119).                                            *)
(***************************************************************************)
QueueOf(s, k) == IF k \in DOMAIN s.queues THEN s.queues[k] ELSE << >>

\* Mutant of Shift: queue.pop(), the newest task first.
ShiftPop(queue) ==
  [task |-> queue[Len(queue)], rest |-> SubSeq(queue, 1, Len(queue) - 1)]

\* queue.shift()
Shift(queue) == [task |-> Head(queue), rest |-> Tail(queue)]

\* task.resolve(result)
Resolve(s, t, result) ==
  [s EXCEPT !.tasks[t].promise = "resolved", !.tasks[t].value = result]

\* Mutant of Reject: the failure also rejects and drops every task waiting
\* behind the failed one.
RejectAll(s, t) ==
  LET k == s.tasks[t].key
  IN [s EXCEPT !.tasks = [u \in TaskIds |->
                            IF u = t \/ (@[u].key = k /\ @[u].phase = "queued")
                            THEN [@[u] EXCEPT !.promise = "rejected", !.phase = "done"]
                            ELSE @[u]],
               !.queues[k] = << >>]

\* catch (err) { task.reject(err) }
Reject(s, t) == [s EXCEPT !.tasks[t].promise = "rejected"]

\* Mutant of Lock: one flag for all topics (the single-queue version).
LockGlobal(k) == "general"

\* The member of the processing set that stands for topic k.
Lock(k) == k

\* Mutant of AlreadyProcessing: the guard is missing.
AlreadyProcessingNever(s, k) == FALSE

\* if (processing.has(topicId)) return
AlreadyProcessing(s, k) == Lock(k) \in s.processing

\* Mutant of WorkerLoop: the worker that finds its queue empty leaves without
\* processing.delete(topicId).
RECURSIVE WorkerLoopKeepLock(_, _)
WorkerLoopKeepLock(s, k) ==
  IF QueueOf(s, k) # << >>
  THEN With(Shift(QueueOf(s, k)), LAMBDA sh :
         With(TaskStart([s EXCEPT !.queues[k] = sh.rest], sh.task), LAMBDA s1 :
           IF s1.tasks[sh.task].phase = "done"
           THEN With(Reject(s1, sh.task), LAMBDA s2 : WorkerLoopKeepLock(s2, k))
           ELSE s1))
  ELSE [s EXCEPT !.queues = [j \in (DOMAIN @) \ {k} |-> @[j]]]

\* Mutant of WorkerLoop: the worker that finds its queue empty leaves without
\* queues.delete(topicId).
RECURSIVE WorkerLoopKeepQueue(_, _)
WorkerLoopKeepQueue(s, k) ==
  IF QueueOf(s, k) # << >>
  THEN With(Shift(QueueOf(s, k)), LAMBDA sh :
         With(TaskStart([s EXCEPT !.queues[k] = sh.rest], sh.task), LAMBDA s1 :
           IF s1.tasks[sh.task].phase = "done"
           THEN With(Reject(s1, sh.task), LAMBDA s2 : WorkerLoopKeepQueue(s2, k))
           ELSE s1))
  ELSE [s EXCEPT !.processing = @ \ {Lock(k)}]

\* The while loop from its test to the next await (a task that started and
\* is now running) or to the end of processQueue.
RECURSIVE WorkerLoop(_, _)
WorkerLoop(s, k) ==
  IF QueueOf(s, k) # << >>
  THEN With(Shift(QueueOf(s, k)), LAMBDA sh :
         With(TaskStart([s EXCEPT !.queues[k] = sh.rest], sh.task), LAMBDA s1 :
           IF s1.tasks[sh.task].phase = "done"
           THEN With(Reject(s1, sh.task), LAMBDA s2 : WorkerLoop(s2, k))
           ELSE s1))
  ELSE [s EXCEPT !.processing = @ \ {Lock(k)},
                 !.queues = [j \in (DOMAIN @) \ {k} |-> @[j]]]

\* Mutant of processQueue: every call starts a worker.
processQueueEach(s, k) ==
  With([s EXCEPT !.processing = @ \cup {Lock(k)}], LAMBDA s1 : WorkerLoop(s1, k))

processQueue(s, k) ==
  IF AlreadyProcessing(s, k) THEN s
  ELSE With([s EXCEPT !.processing = @ \cup {Lock(k)}], LAMBDA s1 : WorkerLoop(s1, k))

enqueue(s, k, t, bad) ==
  With(IF k \notin DOMAIN s.queues
       THEN [s EXCEPT !.queues = @ @@ (k :> << >>)]
       ELSE s, LAMBDA s1 :
    With([s1 EXCEPT !.queues[k] = Append(@, t),
                    !.tasks[t] = [NoTask EXCEPT !.key = k, !.bad = bad,
                                                !.phase = "queued",
                                                !.promise = "pending"]],
         LAMBDA s2 : processQueue(s2, k)))

RECURSIVE SumLen(_, _)
SumLen(q, ks) ==
  IF ks = {} THEN 0
  ELSE LET k == CHOOSE x \in ks : TRUE IN Len(q[k]) + SumLen(q, ks \ {k})

\* queueLength(): the total across all topics.
queueLengthAll(s) == SumLen(s.queues, DOMAIN s.queues)

\* queueLength(topicId): if (topicId) tests the argument for truthiness,
\* and the empty string is falsy like the missing argument.
queueLength(s, topicId) ==
  IF topicId # "" THEN Len(QueueOf(s, topicId)) ELSE queueLengthAll(s)

\* The subprocess of task t ended with output out: spawnClaude resolves,
\* runClaude retries or returns, the queued function finishes, the worker
\* settles the promise and goes on with the queue.
SubprocessEnd(s, t, out) ==
  With(spawnClaude(s.tasks[t].session, out), LAMBDA result :
    IF RetryDecision(Len(s.tasks[t].modes), result) = "return"
    THEN With(TaskFinish(s, t, result), LAMBDA s1 :
           With(Resolve(s1, t, result), LAMBDA s2 :
             WorkerLoop(s2, s.tasks[t].key)))
    ELSE [s EXCEPT !.tasks[t].modes =
            Append(@, RetryDecision(Len(@), result) = "resume")])

(***************************************************************************)
(* Subprocess outputs used by the system specification: one per kind of    *)
(* ending.  The subprocess is an external program, so which output an      *)
(* attempt produces does not depend on the mode it was spawned in.         *)
(***************************************************************************)
TextBlock(text) == Block("text", "", text)
ToolBlock(name) == Block("tool_use", name, << >>)

OutOk ==
  ProcOutput("close", 0,
             << AssistantLine(<< TextBlock(T("hi")) >>),
                ResultLine(T("hello"), 0, 1200, FALSE, << >>) >>,
             << >>, FALSE)
OutInUse == ProcOutput("close", 1, << >>, T("already in use"), FALSE)
OutNoSession == ProcOutput("close", 1, << >>, T("No session found"), FALSE)
OutTimeout ==
  ProcOutput("close", Killed,
             << AssistantLine(<< TextBlock(T("working on it")) >>) >>,
             << >>, TRUE)
OutSpawnError == ProcOutput("error", 0, << >>, T("ENOENT"), FALSE)

SampleOutputs == {OutOk, OutInUse, OutNoSession, OutTimeout, OutSpawnError}

NoInput == [sessionId |-> 0, out |-> ProcOutput("none", 0, << >>, << >>, FALSE)]

(***************************************************************************)
(* Initial states: the process has just started (createBot has run).  The  *)
(* session directory may hold records of an earlier run.                   *)
(***************************************************************************)
NoFiles == [k \in Keys |-> NoSession]

InitDisks ==
  { Disk(NoFiles, NoSession, 1),
    Disk(NoFiles, SessionState(100, 100, 2), 1),
    Disk([NoFiles EXCEPT !["general"] = SessionState(101, 101, 1)], NoSession, 1) }

\* createBot, part_007:70-75
InitialActive(d) ==
  { d.files[k].sessionId : k \in {j \in getAllSessions(d) : d.files[j].messageCount > 0} }

InitSystem ==
  /\ queues = << >>
  /\ processing = {}
  /\ tasks = [t \in TaskIds |-> NoTask]
  /\ disk \in InitDisks
  /\ activeSessions = InitialActive(disk)
  /\ lastGot = [k \in Keys |-> 0]
  /\ nextUpdate = 1

\* No call of a session-store operation is examined.
NoStoreCall ==
  [disk |-> Disk(NoFiles, NoSession, 1), op |-> "none", key |-> "general",
   writes |-> << >>, done |-> FALSE, ret |-> NoSession, threw |-> FALSE,
   failed |-> FALSE]

\* createBot has just run: no denial is pending, no update was handled.
NoPending == [names |-> {}, by |-> 0]

NoHandler == [key |-> "", state |-> "none", text |-> "", extraTools |-> {},
              by |-> 0, prompted |-> FALSE]

NoPerm ==
  [pending |-> [k \in Keys |-> NoPending],
   handler |-> [u \in TaskIds |-> NoHandler],
   started |-> [k \in Keys |-> << >>]]

\* Update ids are numbered from 1.  Updates 1 and 2 are the ones examined:
\* Telegram may deliver them again; update 2 is a photo, the others are texts.
Probes == {1, 2}

\* The bot has never run: there is no file of processed ids.
NoDedupFile == [exists |-> FALSE, processedIds |-> << >>]

NoDedup ==
  [file |-> NoDedupFile, next |-> 1, inflight |-> [u \in Probes |-> 0],
   handed |-> [u \in Probes |-> 0], typing |-> [u \in Probes |-> 0],
   enqueued |-> [u \in Probes |-> 0]]

\* The emails and poll() calls of one run of the model.
MaxEmails == 2

MaxPolls == 3

Emails == 1..MaxEmails

NoMail == [subject |-> << >>, replyTo |-> 0]

NoPoll == [state |-> "none", todo |-> << >>]

NoEmailTask == [poll |-> 0, email |-> 0]

\* The email bridge has just started on an empty mailbox: main() before its
\* first poll().
NoEmail ==
  [mode |-> "plus", mail |-> [e \in Emails |-> NoMail], processedIds |-> {},
   sessions |-> << >>, activeSessions |-> {}, uuid |-> 1,
   polls |-> [p \in 1..MaxPolls |-> NoPoll], queue |-> << >>,
   running |-> NoEmailTask, runs |-> << >>]

\* No update has been handled.
NoChat == -1

\* splitMessage has not been called.
NoSplit == [text |-> << >>, chunks |-> << >>, done |-> FALSE]

\* No subprocess is examined with its progress timer.
NoProgress ==
  [state |-> "none", stdout |-> << >>, progressToolCount |-> 0,
   reports |-> << >>]

\* The parts examined on their own stand still.
ExtIdle ==
  /\ store = NoStoreCall /\ perm = NoPerm /\ dd = NoDedup /\ em = NoEmail
  /\ al = NoChat /\ sp = NoSplit /\ pg = NoProgress

Init ==
  /\ InitSystem
  /\ pin = NoInput
  /\ pout = NoResult
  /\ ExtIdle

\* An update arrives and its handler runs.
Arrives ==
  /\ nextUpdate <= MaxUpdates
  /\ nextUpdate' = nextUpdate + 1

\* processAndRespond reaches enqueue(topicId, fn) for a message of topic k.
Enqueue(k, bad) ==
  /\ Arrives
  /\ \E s \in {St} : \E s1 \in {enqueue(s, k, nextUpdate, bad)} : Becomes(s1)
  /\ UNCHANGED << pin, pout >>
  /\ UNCHANGED ext

\* The subprocess of a running task ends.
ProcEnd(t, out) ==
  /\ tasks[t].phase = "running"
  /\ \E s \in {St} : \E s1 \in {SubprocessEnd(s, t, out)} : Becomes(s1)
  /\ UNCHANGED << nextUpdate, pin, pout >>
  /\ UNCHANGED ext

\* bot.command("new"), part_007:234-243
NewSessionCmd(k) ==
  /\ Arrives
  /\ LET n == newSession(disk, k)
     IN /\ disk' = n.disk
        /\ activeSessions' = activeSessions \ {n.ret.sessionId}
  /\ lastGot' = [lastGot EXCEPT ![k] = 0]
  /\ UNCHANGED << queues, processing, tasks, pin, pout >>
  /\ UNCHANGED ext

\* bot.command("status"), part_007:245-263
StatusCmd(k) ==
  /\ Arrives
  /\ LET g == getSessionStatus(disk, k)
     IN /\ disk' = g.disk
        /\ lastGot' = [lastGot EXCEPT ![k] = g.ret.sessionId]
  /\ UNCHANGED << queues, processing, tasks, activeSessions, pin, pout >>
  /\ UNCHANGED ext

Next ==
  \/ \E k \in Keys, bad \in BOOLEAN : Enqueue(k, bad)
  \/ \E t \in TaskIds, out \in SampleOutputs : ProcEnd(t, out)
  \/ \E k \in Keys : NewSessionCmd(k)
  \/ \E k \in Keys : StatusCmd(k)

Spec == Init /\ [][Next]_vars


(***************************************************************************)
(* spawnClaude on its own: one call with an input drawn from every         *)
(* combination of exit code, standard error, timeout flag and output lines *)
(* (at most MaxLines of them).  The rest of the system stands still.       *)
(***************************************************************************)
MaxLines == 3

ParseLineSet ==
  { BadLine, SystemLine,
    AssistantLine(<< TextBlock(T("hi")) >>),
    AssistantLine(<< ToolBlock("Read"), TextBlock(T("working on it")) >>),
    AssistantLine(<< TextBlock(T("LONG")) >>) }
  \cup
  { ResultLine(text, 0, 0, FALSE, << >>) :
      text \in {<< >>, T("hello"), T("already in use")} }
  \cup
  { ResultLine(text, 999, 1200, TRUE, << "Bash" >>) :
      text \in {<< >>, T("hello"), T("already in use")} }

\* The outputs of at most maxLines lines, and the inputs made of them.
Streams(maxLines) == UNION { [1..n -> ParseLineSet] : n \in 0..maxLines }

ParseInputs(maxLines) ==
  { [sessionId |-> 5, out |-> ProcOutput("close", code, stdout, stderr, timedOut)] :
      code \in {0, 1, Killed}, stdout \in Streams(maxLines),
      stderr \in {<< >>, T("already in use") \o T("LONG") \o T("LONG")},
      timedOut \in BOOLEAN }
  \cup
  { [sessionId |-> 5, out |-> OutSpawnError] }

InitParse ==
  /\ queues = << >>
  /\ processing = {}
  /\ tasks = [t \in TaskIds |-> NoTask]
  /\ disk = Disk(NoFiles, NoSession, 1)
  /\ activeSessions = {}
  /\ lastGot = [k \in Keys |-> 0]
  /\ nextUpdate = 1
  /\ pin \in ParseInputs(MaxLines)
  /\ pout = NoResult
  /\ ExtIdle

\* The subprocess ends and spawnClaude's promise resolves.
ParseRun ==
  /\ pout = NoResult
  /\ pout' = spawnClaude(pin.sessionId, pin.out)
  /\ UNCHANGED << queues, processing, tasks, disk, activeSessions, lastGot,
                  nextUpdate, pin >>
  /\ UNCHANGED ext

NextParse == ParseRun

SpecParse == InitParse /\ [][NextParse]_vars


(***************************************************************************)
(* The session store under write failures: one call of getOrCreateSession, *)
(* newSession or incrementMessage in which each write (saveState: ensureDir *)
(* and fs.writeFileSync) succeeds or throws.  writes[i] says whether the   *)
(* i-th write of the call succeeds.  A write that throws leaves the file   *)
(* as it was.                                                              *)
(***************************************************************************)
\* The most writes one call makes: incrementMessage on the legacy path
\* (the import, the fresh record, the incremented record).
MaxWrites == 3

\* What a call did: the value returned (NoSession when it threw), the disk
\* after it, whether it threw, whether one of its writes failed, and the
\* number of writes it attempted.
StoreResult(ret, d, threw, failed, n) ==
  [ret |-> ret, disk |-> d, threw |-> threw, failed |-> failed, n |-> n]

\* saveState whose write succeeds (ok) or throws: the disk afterwards.
saveStateIO(d, topicId, state, ok) ==
  IF ok THEN saveState(d, topicId, state) ELSE d

\* getOrCreateSession.  The import of the legacy record is inside the
\* try block whose catch goes on to create a fresh record, so a write that
\* throws there is caught.
getOrCreateSessionIO(d, topicId, writes) ==
  LET existing == loadState(d, topicId)
      import == topicId = "general" /\ d.legacy # NoSession
      used == [d EXCEPT !.uuid = @ + 1]
      i == IF import THEN 2 ELSE 1
  IN IF existing # NoSession THEN StoreResult(existing, d, FALSE, FALSE, 0)
     ELSE IF import /\ writes[1]
     THEN StoreResult(d.legacy, saveStateIO(d, topicId, d.legacy, TRUE),
                      FALSE, FALSE, 1)
     ELSE IF writes[i]
     THEN StoreResult(FreshState(d), saveStateIO(used, topicId, FreshState(d), TRUE),
                      FALSE, import, i)
     ELSE StoreResult(NoSession, used, TRUE, TRUE, i)

newSessionIO(d, topicId, writes) ==
  LET used == [d EXCEPT !.uuid = @ + 1]
  IN IF writes[1]
     THEN StoreResult(FreshState(d), saveStateIO(used, topicId, FreshState(d), TRUE),
                      FALSE, FALSE, 1)
     ELSE StoreResult(NoSession, used, TRUE, TRUE, 1)

incrementMessageIO(d, topicId, writes) ==
  LET g == getOrCreateSessionIO(d, topicId, writes)
      state == [g.ret EXCEPT !.messageCount = @ + 1]
  IN IF g.threw THEN g
     ELSE IF writes[g.n + 1]
     THEN StoreResult(state, saveStateIO(g.disk, topicId, state, TRUE),
                      FALSE, g.failed, g.n + 1)
     ELSE StoreResult(NoSession, g.disk, TRUE, TRUE, g.n + 1)

StoreOps == {"getOrCreateSession", "newSession", "incrementMessage"}

StoreCall(op, d, topicId, writes) ==
  CASE op = "getOrCreateSession" -> getOrCreateSessionIO(d, topicId, writes)
    [] op = "newSession" -> newSessionIO(d, topicId, writes)
    [] op = "incrementMessage" -> incrementMessageIO(d, topicId, writes)

\* The rest of the system stands still.
SystemIdle ==
  /\ queues = << >>
  /\ processing = {}
  /\ tasks = [t \in TaskIds |-> NoTask]
  /\ disk = Disk(NoFiles, NoSession, 1)
  /\ activeSessions = {}
  /\ lastGot = [k \in Keys |-> 0]
  /\ nextUpdate = 1
  /\ pin = NoInput
  /\ pout = NoResult

InitStore ==
  /\ SystemIdle
  /\ store \in { [NoStoreCall EXCEPT !.disk = d, !.op = op, !.key = k,
                                      !.writes = w] :
                    d \in InitDisks, op \in StoreOps, k \in Keys,
                    w \in [1..MaxWrites -> BOOLEAN] }
  /\ perm = NoPerm
  /\ dd = NoDedup
  /\ em = NoEmail
  /\ al = NoChat
  /\ sp = NoSplit /\ pg = NoProgress

\* The call is made.
StoreRun ==
  /\ ~store.done
  /\ LET r == StoreCall(store.op, store.disk, store.key, store.writes)
     IN store' = [store EXCEPT !.done = TRUE, !.disk = r.disk, !.ret = r.ret,
                               !.threw = r.threw, !.failed = r.failed]
  /\ UNCHANGED << queues, processing, tasks, disk, activeSessions, lastGot,
                  nextUpdate, pin, pout >>
  /\ UNCHANGED << perm, dd, em, al, sp, pg >>

NextStore == StoreRun

SpecStore == InitStore /\ [][NextStore]_vars


(***************************************************************************)
(* Permission escalation (part_007:78-81, 132-243; claude.ts:31-37, 116).  *)
(* A tool name is a string; the denials of a result are the sequence of    *)
(* the tool_name fields of its permission_denials.  A pending entry is     *)
(* {denials, deniedToolNames}; names stands for deniedToolNames, and by    *)
(* is history: the task whose result made the entry (0: no entry).         *)
(***************************************************************************)
ALLOWED_TOOLS ==
  {"Read", "Edit", "Write", "Glob", "Grep", "Task", "TaskOutput", "WebFetch",
   "WebSearch", "NotebookEdit", "Skill", "EnterPlanMode", "ExitPlanMode",
   "AskUserQuestion", "TaskCreate", "TaskGet", "TaskUpdate", "TaskList",
   "TaskStop"}

\* const tools = [...ALLOWED_TOOLS, ...extraAllowedTools]
AllowedToolsArg(extraAllowedTools) == ALLOWED_TOOLS \cup extraAllowedTools

\* APPROVAL_PATTERN.test(claudeMessage.trim()): the whole trimmed text is
\* one of the words, in any case.
Texts == {" OK ", "yes please"}

APPROVAL_PATTERN(text) == text \in {"yes", "y", "ok", " OK "}

\* Mutant of isApproval: any text starting with an approval word approves.
isApprovalPrefix(pending, text) ==
  pending # NoPending /\ text \in {"yes", "y", "ok", " OK ", "yes please"}

\* pending && APPROVAL_PATTERN.test(claudeMessage.trim())
isApproval(pending, text) == pending # NoPending /\ APPROVAL_PATTERN(text)

\* [...new Set(result.permissionDenials.map((d) => d.tool_name))]
deniedToolNames(denials) == {denials[i] : i \in DOMAIN denials}

\* Mutant of ConsumePending: the entry stays until a result replaces it.
KeepPending(pending, topicId) == pending

\* pendingPermissions.delete(topicId)
ConsumePending(pending, topicId) == [pending EXCEPT ![topicId] = NoPending]

\* Mutant of PromptsForPermission: every result with denials prompts.
PromptsAlways(result) == result.permissionDenials # << >>

\* if (result.permissionDenials.length > 0 && result.isError)
PromptsForPermission(result) ==
  result.permissionDenials # << >> /\ result.isError

\* Subprocess outputs with denials: the run failed for lack of a tool, or
\* it got round the denial and succeeded.
OutDenied(names) ==
  ProcOutput("close", 0,
             << ResultLine(T("need permission"), 0, 900, TRUE, names) >>,
             << >>, FALSE)
OutDeniedHandled ==
  ProcOutput("close", 0,
             << ResultLine(T("hello"), 0, 900, FALSE, << "Bash" >>) >>,
             << >>, FALSE)

PermOutputs ==
  {OutOk, OutDenied(<< "KillShell", "Bash", "KillShell" >>), OutDeniedHandled}

\* The task of key k that the step from s to s1 invoked, appended to the
\* key's history.
Invoked(s, s1, started) ==
  [k \in Keys |->
     LET new == {t \in TaskIds : /\ s1.tasks[t].key = k
                                 /\ s1.tasks[t].phase = "running"
                                 /\ s.tasks[t].phase # "running"}
     IN IF new = {} THEN started[k]
        ELSE started[k] \o << CHOOSE t \in new : TRUE >>]

\* createBot on an empty session directory.
InitPerm == Init /\ disk = Disk(NoFiles, NoSession, 1)

\* processAndRespond up to `await sendTyping(ctx)` for a text of topic k.
PermMessage(k, text) ==
  /\ Arrives
  /\ LET pending == perm.pending[k]
         approval == isApproval(pending, text)
     IN perm' = [perm EXCEPT
                   !.handler[nextUpdate] =
                      [key |-> k, state |-> "typing", text |-> text,
                       extraTools |-> IF approval THEN pending.names ELSE {},
                       by |-> IF approval THEN pending.by ELSE 0,
                       prompted |-> FALSE],
                   !.pending = ConsumePending(@, k)]
  /\ UNCHANGED << queues, processing, tasks, disk, activeSessions, lastGot,
                  pin, pout, store, dd, em, al, sp, pg >>

\* sendTyping returned: processAndRespond calls enqueue(topicId, fn).
PermEnqueue(u) ==
  /\ perm.handler[u].state = "typing"
  /\ \E s \in {St} : \E s1 \in {enqueue(s, perm.handler[u].key, u, FALSE)} :
       /\ Becomes(s1)
       /\ perm' = [perm EXCEPT !.handler[u].state = "enqueued",
                               !.started = Invoked(s, s1, @)]
  /\ UNCHANGED << nextUpdate, pin, pout, store, dd, em, al, sp, pg >>

\* The subprocess of a running task ends; when the task returned, the
\* continuation of processAndRespond (part_007:192-217) runs.
PermProcEnd(t, out) ==
  /\ tasks[t].phase = "running"
  /\ \E s \in {St} : \E s1 \in {SubprocessEnd(s, t, out)} :
       /\ Becomes(s1)
       /\ LET result == s1.tasks[t].value
              k == s.tasks[t].key
          IN perm' = [perm EXCEPT
                        !.handler[t].state =
                           IF s1.tasks[t].phase = "done" THEN "replied" ELSE @,
                        !.handler[t].text =
                           IF s1.tasks[t].phase = "done" THEN "" ELSE @,
                        !.handler[t].prompted =
                           s1.tasks[t].phase = "done" /\ PromptsForPermission(result),
                        !.pending[k] =
                           IF s1.tasks[t].phase = "done" /\ PromptsForPermission(result)
                           THEN [names |-> deniedToolNames(result.permissionDenials),
                                 by |-> t]
                           ELSE @,
                        !.started = Invoked(s, s1, @)]
  /\ UNCHANGED << nextUpdate, pin, pout, store, dd, em, al, sp, pg >>

\* bot.command("new"), part_007:234-243
PermNew(k) ==
  /\ Arrives
  /\ perm' = [perm EXCEPT !.pending = ConsumePending(@, k)]
  /\ LET n == newSession(disk, k)
     IN /\ disk' = n.disk
        /\ activeSessions' = activeSessions \ {n.ret.sessionId}
  /\ lastGot' = [lastGot EXCEPT ![k] = 0]
  /\ UNCHANGED << queues, processing, tasks, pin, pout, store, dd, em, al, sp, pg >>

NextPerm ==
  \/ \E k \in Keys, text \in Texts : PermMessage(k, text)
  \/ \E u \in TaskIds : PermEnqueue(u)
  \/ \E t \in TaskIds, out \in PermOutputs : PermProcEnd(t, out)
  \/ \E k \in Keys : PermNew(k)

SpecPerm == InitPerm /\ [][NextPerm]_vars


(***************************************************************************)
(* Update deduplication (part_003; the text and photo handlers of          *)
(* part_007:280-363).  The file holds the processed ids, oldest first.     *)
(***************************************************************************)
MAX_STORED == 200

\* The update ids of one run of the model.
MaxIds == 202

\* loadState of dedup.ts: a file that cannot be read or parsed counts as
\* the empty list.
dedupLoadState(file) == IF file.exists THEN file.processedIds ELSE << >>

\* saveState of dedup.ts
dedupSaveState(processedIds) == [exists |-> TRUE, processedIds |-> processedIds]

isAlreadyProcessed(file, updateId) ==
  \E i \in DOMAIN dedupLoadState(file) : dedupLoadState(file)[i] = updateId

\* markProcessed: push, slice(-MAX_STORED), save.
markProcessed(file, updateId) ==
  LET ids == Append(dedupLoadState(file), updateId)
  IN dedupSaveState(IF Len(ids) > MAX_STORED
                    THEN SubSeq(ids, Len(ids) - MAX_STORED + 1, Len(ids))
                    ELSE ids)

IsPhoto(u) == u = 2

InitDedup == Init /\ disk = Disk(NoFiles, NoSession, 1)

\* Telegram delivers update u: a new one (in this model only while no
\* handler of an examined update waits for a download or for sendTyping),
\* or an examined one again.
Delivered(u) ==
  /\ u <= MaxIds
  /\ \/ u = dd.next /\ \A p \in Probes : dd.inflight[p] = 0 /\ dd.typing[p] = 0
     \/ u < dd.next /\ u \in Probes /\ dd.handed[u] < 2

\* bot.on("message:text"), part_007:331-363, with processAndRespond up to
\* `await sendTyping(ctx)` (part_007:132-156)
TextHandler(u) ==
  /\ Delivered(u) /\ ~IsPhoto(u)
  /\ dd' = IF isAlreadyProcessed(dd.file, u)
            THEN [dd EXCEPT !.next = IF u = @ THEN @ + 1 ELSE @]
            ELSE [dd EXCEPT !.next = IF u = @ THEN @ + 1 ELSE @,
                            !.file = markProcessed(@, u),
                            !.handed = IF u \in Probes
                                       THEN [@ EXCEPT ![u] = @ + 1] ELSE @,
                            !.typing = IF u \in Probes
                                       THEN [@ EXCEPT ![u] = @ + 1] ELSE @]
  /\ UNCHANGED << queues, processing, tasks, disk, activeSessions, lastGot,
                  nextUpdate, pin, pout, store, perm, em, al, sp, pg >>

\* bot.on("message:photo") up to `await downloadTelegramFile`,
\* part_007:280-305
PhotoHandler(u) ==
  /\ Delivered(u) /\ IsPhoto(u) /\ dd.inflight[u] < 2
  /\ dd' = IF isAlreadyProcessed(dd.file, u)
            THEN [dd EXCEPT !.next = IF u = @ THEN @ + 1 ELSE @]
            ELSE [dd EXCEPT !.next = IF u = @ THEN @ + 1 ELSE @,
                            !.inflight[u] = @ + 1]
  /\ UNCHANGED << queues, processing, tasks, disk, activeSessions, lastGot,
                  nextUpdate, pin, pout, store, perm, em, al, sp, pg >>

\* The download ended: markProcessed, and processAndRespond (up to its
\* `await sendTyping`) if it succeeded (part_007:306-328).
PhotoDownloaded(u, ok) ==
  /\ dd.inflight[u] > 0
  /\ dd' = [dd EXCEPT !.inflight[u] = @ - 1,
                      !.file = markProcessed(@, u),
                      !.handed[u] = IF ok THEN @ + 1 ELSE @,
                      !.typing[u] = IF ok THEN @ + 1 ELSE @]
  /\ UNCHANGED << queues, processing, tasks, disk, activeSessions, lastGot,
                  nextUpdate, pin, pout, store, perm, em, al, sp, pg >>

\* sendTyping returned: processAndRespond hands the work of update u to the
\* queue, enqueue(topicId, fn) (part_007:158-162).
DedupEnqueue(u) ==
  /\ dd.typing[u] > 0
  /\ dd' = [dd EXCEPT !.typing[u] = @ - 1, !.enqueued[u] = @ + 1]
  /\ UNCHANGED << queues, processing, tasks, disk, activeSessions, lastGot,
                  nextUpdate, pin, pout, store, perm, em, al, sp, pg >>

\* The process is killed and started again: the handlers that were waiting
\* are gone, the file stays.
DedupRestart ==
  /\ \E u \in Probes : dd.inflight[u] > 0 \/ dd.typing[u] > 0
  /\ dd' = [dd EXCEPT !.inflight = [u \in Probes |-> 0],
                      !.typing = [u \in Probes |-> 0]]
  /\ UNCHANGED << queues, processing, tasks, disk, activeSessions, lastGot,
                  nextUpdate, pin, pout, store, perm, em, al, sp, pg >>

NextDedup ==
  \/ \E u \in 1..MaxIds : TextHandler(u)
  \/ \E u \in Probes : PhotoHandler(u)
  \/ \E u \in Probes, ok \in BOOLEAN : PhotoDownloaded(u, ok)
  \/ \E u \in Probes : DedupEnqueue(u)
  \/ DedupRestart

SpecDedup == InitDedup /\ [][NextDedup]_vars


(***************************************************************************)
(* The email bridge (email-bridge.ts; gmail.ts is part_002).  A subject is *)
(* a sequence of tokens: reply prefixes ("Re:", "Fwd:"), the control words *)
(* ("NEW:", and in keyword mode "CLAUDE:" or "CLAUDE" before "NEW:"), and  *)
(* the rest of the subject as one token.  Case is not modelled (the        *)
(* patterns ignore it and the key is lower-cased).  Every email comes from *)
(* the allowed sender, is addressed to the trigger address, and has a      *)
(* body, so its prompt is not empty.                                       *)
(***************************************************************************)
IsReplyPrefix(token) == token \in {"Re:", "Fwd:", "Fw:"}

\* s.replace(/^(Re:|Fwd?:)\s*/gi, "").trim(), at most n times.
RECURSIVE StripPrefixes(_, _)
StripPrefixes(subject, n) ==
  IF n = 0 \/ subject = << >> \/ ~IsReplyPrefix(Head(subject)) THEN subject
  ELSE StripPrefixes(Tail(subject), n - 1)

\* subject.replace(/^(Re:\s*)+/i, "")
RECURSIVE StripRe(_)
StripRe(subject) ==
  IF subject # << >> /\ Head(subject) = "Re:" THEN StripRe(Tail(subject))
  ELSE subject

StripHead(subject, tokens) ==
  IF subject # << >> /\ Head(subject) \in tokens THEN Tail(subject) ELSE subject

PREFIX_ROUNDS == 5

subjectToKey(subject, keyword) ==
  LET a == StripPrefixes(subject, PREFIX_ROUNDS)
      b == StripHead(a, {"NEW:"})
  IN IF keyword THEN StripHead(b, {"CLAUDE:", "CLAUDE"}) ELSE b

\* extractPrompt: whether the subject asks for a fresh session.
isNewSession(subject, keyword) ==
  LET t == StripPrefixes(subject, 2)
  IN IF keyword
     THEN Len(t) >= 2 /\ t[1] = "CLAUDE" /\ t[2] = "NEW:"
     ELSE t # << >> /\ Head(t) = "NEW:"

\* pollForEmails: the test of the subject in keyword mode.
KeywordMatches(subject) ==
  LET t == StripRe(subject)
  IN /\ t # << >>
     /\ Head(t) = "CLAUDE:" \/ (Len(t) >= 2 /\ t[1] = "CLAUDE" /\ t[2] = "NEW:")

EmailSession(key, d) == IF key \in DOMAIN d.sessions THEN d.sessions[key] ELSE 0

\* newSession of email-bridge.ts, and activeSessions.delete.
emailNewSession(d, key) ==
  [d EXCEPT !.sessions = [k \in (DOMAIN @) \cup {key} |->
                            IF k = key THEN d.uuid ELSE @[k]],
            !.uuid = @ + 1,
            !.activeSessions = @ \ {d.uuid}]

\* getOrCreateSession of email-bridge.ts
emailGetOrCreate(d, key) ==
  IF key \in DOMAIN d.sessions THEN d
  ELSE [d EXCEPT !.sessions = [k \in (DOMAIN @) \cup {key} |->
                                 IF k = key THEN d.uuid ELSE @[k]],
                 !.uuid = @ + 1]

\* processEmail up to `await runClaude`.
processEmailStart(d, task) ==
  LET subject == d.mail[task.email].subject
      keyword == d.mode = "keyword"
      key == subjectToKey(subject, keyword)
      fresh == isNewSession(subject, keyword)
      d1 == IF fresh THEN emailNewSession(d, key) ELSE d
      d2 == emailGetOrCreate(d1, key)
  IN [d2 EXCEPT !.running = task,
                !.runs = Append(@, [email |-> task.email, key |-> key,
                                    sessionId |-> EmailSession(key, d2),
                                    created |-> d2.uuid # d.uuid])]

\* processQueue("email"): the worker takes the next task, if there is one.
emailWorker(d) ==
  IF d.queue = << >> THEN [d EXCEPT !.running = NoEmailTask]
  ELSE processEmailStart([d EXCEPT !.queue = Tail(@)], Head(d.queue))

\* enqueue("email", () => processEmail(email))
emailEnqueue(d, task) ==
  IF d.running = NoEmailTask /\ d.queue = << >>
  THEN processEmailStart(d, task)
  ELSE [d EXCEPT !.queue = Append(@, task)]

\* The loop of poll(): the next email of poll p is enqueued and awaited.
pollStep(d, p) ==
  IF d.polls[p].todo = << >> THEN [d EXCEPT !.polls[p].state = "done"]
  ELSE emailEnqueue([d EXCEPT !.polls[p].state = "waiting",
                              !.polls[p].todo = Tail(@)],
                    [poll |-> p, email |-> Head(d.polls[p].todo)])

\* pollForEmails: the emails not yet processed whose subject passes the
\* filter, oldest first; the others are marked as processed.
RECURSIVE Ascending(_)
Ascending(set) ==
  IF set = {} THEN << >>
  ELSE LET m == CHOOSE x \in set : \A y \in set : x <= y
       IN << m >> \o Ascending(set \ {m})

Unprocessed(d) ==
  {e \in Emails : d.mail[e] # NoMail /\ e \notin d.processedIds}

Passes(d, e) == d.mode = "plus" \/ KeywordMatches(d.mail[e].subject)

pollForEmails(d) ==
  [emails |-> Ascending({e \in Unprocessed(d) : Passes(d, e)}),
   processedIds |-> d.processedIds \cup {e \in Unprocessed(d) : ~Passes(d, e)}]

\* The subjects of new threads and the prefixes a reply adds.
FirstSubjects(mode) ==
  IF mode = "plus" THEN { << "topic" >>, << "NEW:", "topic" >> }
  ELSE { << "CLAUDE:", "topic" >>, << "CLAUDE", "NEW:", "topic" >> }

ReplyPrefixes == { << "Re:" >>, << "Fwd:" >> }

InitEmail ==
  /\ SystemIdle
  /\ store = NoStoreCall /\ perm = NoPerm /\ dd = NoDedup /\ al = NoChat
  /\ sp = NoSplit /\ pg = NoProgress
  /\ em \in {[NoEmail EXCEPT !.mode = m] : m \in {"plus", "keyword"}}

EmailUnchanged ==
  UNCHANGED << queues, processing, tasks, disk, activeSessions, lastGot,
               nextUpdate, pin, pout, store, perm, dd, al, sp, pg >>

\* The user sends email e: a new thread, or a reply to an email that the
\* bridge has answered.
EmailArrives(e, subject, replyTo) ==
  /\ em.mail[e] = NoMail
  /\ \A f \in Emails : f < e => em.mail[f] # NoMail
  /\ \/ replyTo = 0 /\ subject \in FirstSubjects(em.mode)
     \/ /\ replyTo \in Emails /\ replyTo < e /\ replyTo \in em.processedIds
        /\ \E i \in DOMAIN em.runs : em.runs[i].email = replyTo
        /\ \E pre \in ReplyPrefixes : subject = pre \o em.mail[replyTo].subject
  /\ em' = [em EXCEPT !.mail[e] = [subject |-> subject, replyTo |-> replyTo]]
  /\ EmailUnchanged

\* The timer fires: poll() fetches the emails and enqueues the first.
PollFires(p) ==
  /\ em.polls[p].state = "none"
  /\ \A q \in 1..MaxPolls : q < p => em.polls[q].state # "none"
  /\ LET f == pollForEmails(em)
     IN em' = pollStep([em EXCEPT !.processedIds = f.processedIds,
                                  !.polls[p].todo = f.emails], p)
  /\ EmailUnchanged

\* runClaude returns for the running email: the bookkeeping, markAsProcessed
\* and the reply; the worker goes on, and the poll that awaited the task
\* enqueues its next email.
EmailClaudeEnds(isError) ==
  /\ em.running # NoEmailTask
  /\ LET task == em.running
         run == em.runs[Len(em.runs)]
         d1 == [em EXCEPT !.activeSessions =
                             IF isError THEN @ ELSE @ \cup {run.sessionId},
                          !.processedIds = @ \cup {task.email}]
     IN em' = pollStep(emailWorker(d1), task.poll)
  /\ EmailUnchanged

NextEmail ==
  \/ \E e \in Emails, r \in {0} \cup Emails :
       \E subject \in FirstSubjects(em.mode)
                       \cup {pre \o em.mail[q].subject : pre \in ReplyPrefixes,
                                                         q \in Emails} :
         EmailArrives(e, subject, r)
  \/ \E p \in 1..MaxPolls : PollFires(p)
  \/ \E isError \in BOOLEAN : EmailClaudeEnds(isError)

SpecEmail == InitEmail /\ [][NextEmail]_vars


(***************************************************************************)
(* The chat allow-list (index.ts:5-34; part_007:97-100 and the first       *)
(* statement of every handler).                                            *)
(***************************************************************************)
\* ctx.chat?.id: undefined, the configured chat, another chat.
Undefined == 0

allowedChatIds == {111}

Chats == {Undefined, 111, 222}

\* Mutant of isAllowed: the chat id is not looked at.
isAllowedAny(chatId) == TRUE

isAllowed(chatId) == chatId # Undefined /\ chatId \in allowedChatIds

UpdateKinds == {"text", "photo", "new", "status", "topics"}

\* An update of the given kind from the given chat is handled: the text
\* and photo handlers (to their enqueue), /new, /status, /topics.
AllowUpdate(chatId, kind, k) ==
  /\ Arrives
  /\ al' = chatId
  /\ IF ~isAllowed(chatId)
     THEN UNCHANGED << queues, processing, tasks, disk, activeSessions, lastGot >>
     ELSE \E s \in {St} :
            CASE kind \in {"text", "photo"} ->
                   Becomes(enqueue(s, k, nextUpdate, FALSE))
              [] kind = "new" ->
                   LET n == newSession(disk, k)
                   IN Becomes([s EXCEPT !.disk = n.disk,
                                        !.activeSessions = @ \ {n.ret.sessionId},
                                        !.lastGot[k] = 0])
              [] kind = "status" ->
                   LET g == getSessionStatus(disk, k)
                   IN Becomes([s EXCEPT !.disk = g.disk,
                                        !.lastGot[k] = g.ret.sessionId])
              [] kind = "topics" -> Becomes(s)
  /\ UNCHANGED << pin, pout, store, perm, dd, em, sp, pg >>

\* The subprocess of a running task ends.
AllowProcEnd(t, out) ==
  /\ tasks[t].phase = "running"
  /\ \E s \in {St} : \E s1 \in {SubprocessEnd(s, t, out)} : Becomes(s1)
  /\ UNCHANGED << nextUpdate, pin, pout, store, perm, dd, em, al, sp, pg >>

NextAllow ==
  \/ \E chatId \in Chats, kind \in UpdateKinds, k \in Keys :
       AllowUpdate(chatId, kind, k)
  \/ \E t \in TaskIds, out \in {OutOk, OutTimeout} : AllowProcEnd(t, out)

SpecAllow == Init /\ [][NextAllow]_vars


(***************************************************************************)
(* splitMessage (part_007:17-35).  A text is a sequence of runs: n times   *)
(* the character c, where c is a letter or "nl" (the newline).  Indexes    *)
(* count characters from 0, as in JavaScript.                              *)
(***************************************************************************)
TELEGRAM_MAX_LENGTH == 4096

\* text.length
RECURSIVE TextLength(_)
TextLength(text) ==
  IF text = << >> THEN 0 ELSE Head(text).n + TextLength(Tail(text))

\* text.slice(0, k)
RECURSIVE SliceTo(_, _)
SliceTo(text, k) ==
  IF text = << >> \/ k <= 0 THEN << >>
  ELSE IF Head(text).n <= k
  THEN << Head(text) >> \o SliceTo(Tail(text), k - Head(text).n)
  ELSE << [Head(text) EXCEPT !.n = k] >>

\* text.slice(k)
RECURSIVE SliceFrom(_, _)
SliceFrom(text, k) ==
  IF text = << >> \/ k <= 0 THEN text
  ELSE IF Head(text).n <= k THEN SliceFrom(Tail(text), k - Head(text).n)
  ELSE << [Head(text) EXCEPT !.n = @ - k] >> \o Tail(text)

\* text.lastIndexOf("\n", from), for the text that starts at index offset:
\* the largest index of a newline that is at most from, or -1.
RECURSIVE lastIndexOf(_, _, _)
lastIndexOf(text, from, offset) ==
  IF text = << >> \/ offset > from THEN -1
  ELSE LET later == lastIndexOf(Tail(text), from, offset + Head(text).n)
           last == offset + Head(text).n - 1
       IN IF later # -1 THEN later
          ELSE IF Head(text).c = "nl" THEN (IF last <= from THEN last ELSE from)
          ELSE -1

\* Mutant of RestAfter: the newline at which the text was split is skipped.
RestAfterNewline(remaining, splitAt) ==
  IF SliceTo(SliceFrom(remaining, splitAt), 1) = << [c |-> "nl", n |-> 1] >>
  THEN SliceFrom(remaining, splitAt + 1)
  ELSE SliceFrom(remaining, splitAt)

\* remaining = remaining.slice(splitAt)
RestAfter(remaining, splitAt) == SliceFrom(remaining, splitAt)

\* The while loop.
RECURSIVE SplitLoop(_)
SplitLoop(remaining) ==
  IF TextLength(remaining) = 0 THEN << >>
  ELSE LET lastNewline == lastIndexOf(remaining, TELEGRAM_MAX_LENGTH, 0)
           splitAt == IF 2 * lastNewline > TELEGRAM_MAX_LENGTH
                      THEN lastNewline ELSE TELEGRAM_MAX_LENGTH
       IN << SliceTo(remaining, splitAt) >>
            \o SplitLoop(RestAfter(remaining, splitAt))

splitMessage(text) ==
  IF TextLength(text) <= TELEGRAM_MAX_LENGTH THEN << text >> ELSE SplitLoop(text)

\* The texts given to splitMessage: at most maxRuns runs.
MaxRuns == 3

Runs ==
  { [c |-> "a", n |-> 1], [c |-> "a", n |-> 2048], [c |-> "b", n |-> 2049],
    [c |-> "b", n |-> 4096], [c |-> "nl", n |-> 1], [c |-> "nl", n |-> 2] }

SplitInputs(maxRuns) == UNION { [1..n -> Runs] : n \in 0..maxRuns }

InitSplit ==
  /\ SystemIdle
  /\ store = NoStoreCall /\ perm = NoPerm /\ dd = NoDedup /\ em = NoEmail
  /\ al = NoChat /\ pg = NoProgress
  /\ sp \in {[NoSplit EXCEPT !.text = t] : t \in SplitInputs(MaxRuns)}

\* The call is made.
SplitRun ==
  /\ ~sp.done
  /\ sp' = [sp EXCEPT !.chunks = splitMessage(sp.text), !.done = TRUE]
  /\ UNCHANGED << queues, processing, tasks, disk, activeSessions, lastGot,
                  nextUpdate, pin, pout, store, perm, dd, em, al, pg >>

SpecSplit == InitSplit /\ [][SplitRun]_vars


(***************************************************************************)
(* Properties.                                                             *)
(***************************************************************************)
Enqueued == {t \in TaskIds : tasks[t].phase # "none"}
Running(k) == {t \in TaskIds : tasks[t].key = k /\ tasks[t].phase = "running"}
Queued(k) == {t \in TaskIds : tasks[t].key = k /\ tasks[t].phase = "queued"}
Settled(t) == tasks[t].promise \in {"resolved", "rejected"}

\* C1: per-key mutual exclusion.  For every key, at most one task enqueued
\* under it is executing (its function called and not yet settled) at a time.
C1_MutualExclusion == \A k \in Keys : Cardinality(Running(k)) <= 1

\* A task of k is executing while another task of k waits in the FIFO.
C1_Witness == \E k \in Keys : Running(k) # {} /\ Queued(k) # {}

\* C2: per-key FIFO.  Tasks are numbered in the order of their enqueue calls;
\* of two tasks of one key, the later one has started only if the promise of
\* the earlier one is settled (so the earlier one also started first).
C2_Fifo ==
  \A t1, t2 \in Enqueued :
    (t1 < t2 /\ tasks[t1].key = tasks[t2].key /\ tasks[t2].phase \in {"running", "done"})
      => Settled(t1)

\* Three tasks of one key: the first settled, the second executing, the
\* third still waiting.
C2_Witness ==
  \E t1, t2, t3 \in Enqueued :
    /\ t1 < t2 /\ t2 < t3
    /\ tasks[t1].key = tasks[t2].key /\ tasks[t2].key = tasks[t3].key
    /\ Settled(t1) /\ tasks[t2].phase = "running" /\ tasks[t3].phase = "queued"

\* The subprocess of a running task of key k ends.
ProcEndOf(k) ==
  \E t \in TaskIds, out \in SampleOutputs : tasks[t].key = k /\ ProcEnd(t, out)

\* The queue seen on its own: a first run (no session files yet) that
\* receives messages only.  The commands never read or write the queue, and
\* the queue never reads the session files.
InitFirstRun == Init /\ disk = Disk(NoFiles, NoSession, 1)

NextMessages ==
  \/ \E k \in Keys, bad \in BOOLEAN : Enqueue(k, bad)
  \/ \E t \in TaskIds, out \in SampleOutputs : ProcEnd(t, out)

\* Every subprocess spawned for topic "t1" ends (at the latest when the safety
\* timer kills it); nothing is assumed about the subprocesses of "general",
\* which may run forever.
SpecOther == InitFirstRun /\ [][NextMessages]_vars /\ WF_vars(ProcEndOf("t1"))

\* C3: cross-key parallelism.  A task enqueued under a key that has no worker
\* starts within the enqueue call, whatever the other keys are doing, and
\* the tasks of "t1" always all settle again (no task of "t1" stays pending
\* for ever) even if a task of "general" never finishes.
C3_CrossKey ==
  /\ [][\A k \in Keys, t \in TaskIds :
          (Running(k) = {} /\ tasks[t].phase = "none"
             /\ tasks'[t].phase # "none" /\ tasks'[t].key = k)
          => tasks'[t].phase \in {"running", "done"}]_vars
  /\ []<>(\A t \in TaskIds : tasks[t].key = "t1" => tasks[t].promise # "pending")

\* A task of "general" and a task of "t1" are executing at the same time.
C3_Witness == Running("general") # {} /\ Running("t1") # {}

\* C4: failure isolation.  A promise is rejected only when its own task
\* threw and resolved only when its own task returned; a task that waits in
\* the FIFO always has a worker on its key (a task of the key is executing),
\* so the tasks behind a failed one are still run.
C4_FailureIsolation ==
  /\ \A t \in Enqueued :
       /\ tasks[t].promise = "rejected" <=> tasks[t].outcome = "threw"
       /\ tasks[t].promise = "resolved" <=> tasks[t].outcome = "returned"
  /\ \A k \in Keys : Queued(k) # {} => Running(k) # {}

\* A task threw with two others of its key around it: the one before it and
\* the one behind it both resolved.
C4_Witness ==
  \E t1, t2, t3 \in Enqueued :
    /\ t1 < t2 /\ t2 < t3
    /\ tasks[t1].key = tasks[t2].key /\ tasks[t2].key = tasks[t3].key
    /\ tasks[t1].promise = "resolved"
    /\ tasks[t2].promise = "rejected"
    /\ tasks[t3].promise = "resolved"

\* The runClaude call of task t has made its second spawn.
Retried(t) == Len(tasks[t].modes) = 2

MismatchError(result) ==
  /\ result.isError
  /\ \/ Includes(result.result, "already in use")
     \/ Includes(result.result, "No session found")

\* C5: at most one retry.  A runClaude call never makes a third spawn, and
\* when the subprocess of the retry ends, runClaude returns (the task's
\* promise resolves in that step) with the result of that subprocess, whatever
\* it is.
C5_AtMostOneRetry ==
  [][\A t \in TaskIds :
       /\ Len(tasks'[t].modes) <= 2
       /\ (Retried(t) /\ tasks'[t] # tasks[t])
            => /\ tasks'[t].promise = "resolved"
               /\ \E out \in SampleOutputs :
                     tasks'[t].value = spawnClaude(tasks[t].session, out)]_vars

\* A promise resolved with a session-mode-mismatch error: such a result of a
\* first spawn is always retried, so this is the result of a retry.
C5_Witness ==
  \E t \in TaskIds : tasks[t].promise = "resolved" /\ MismatchError(tasks[t].value)

\* C6 (the claim as stated): the retry is made in the mode opposite to the
\* mode of the attempt that failed.
C6_RetryOppositeMode ==
  \A t \in TaskIds : Retried(t) => tasks[t].modes[2] # tasks[t].modes[1]

\* C7: messageCount bookkeeping.  In the step in which an invocation for key
\* k completes, the persisted messageCount of k grows by exactly one when the
\* result has isError = FALSE, and the record of k is unchanged otherwise.
C7_MessageCount ==
  [][\A t \in TaskIds :
       (tasks[t].phase = "running" /\ tasks'[t].promise = "resolved")
         => LET k == tasks[t].key
            IN IF tasks'[t].value.isError
               THEN disk'.files[k] = disk.files[k]
               ELSE disk'.files[k].messageCount = disk.files[k].messageCount + 1]_vars

\* On a session created in this run, one invocation succeeded and another
\* timed out: the count is 1.
C7_Witness ==
  \E t1, t2 \in TaskIds :
    /\ tasks[t1].key = tasks[t2].key
    /\ tasks[t1].promise = "resolved" /\ ~tasks[t1].value.isError
    /\ tasks[t2].promise = "resolved"
    /\ Includes(tasks[t2].value.result, "(Timed out - partial response below)")
    /\ disk.files[tasks[t1].key].sessionId < 100
    /\ disk.files[tasks[t1].key].messageCount = 1

\* getOrCreateSession imports the legacy record instead of creating one.
Imports(d, k) == k = "general" /\ d.legacy # NoSession

\* C8: getOrCreateSession is idempotent.  Two consecutive calls for a key
\* with no newSession for it between them return the same sessionId; what a
\* call returned is on disk when it returns; and a call on an absent key
\* leaves a record with messageCount 0 (or the imported legacy record).
C8_GetOrCreateIdempotent ==
  [][\A k \in Keys :
       /\ (lastGot[k] # 0 /\ lastGot'[k] # 0) => lastGot'[k] = lastGot[k]
       /\ lastGot'[k] # 0 => disk'.files[k].sessionId = lastGot'[k]
       /\ (disk.files[k] = NoSession /\ lastGot'[k] # 0)
            => IF Imports(disk, k)
               THEN disk'.files[k].sessionId = disk.legacy.sessionId
               ELSE disk'.files[k] = SessionState(disk.uuid, disk.uuid, 0)]_vars

\* Two tasks of one key each called getOrCreateSession on a session that the
\* first call created: the second is running with the id the store holds.
C8_Witness ==
  \E t1, t2 \in TaskIds :
    /\ t1 < t2 /\ tasks[t1].key = tasks[t2].key
    /\ tasks[t1].promise = "resolved" /\ tasks[t2].phase = "running"
    /\ tasks[t2].session < 100
    /\ tasks[t2].session = lastGot[tasks[t2].key]

\* C9: newSession(k) gives k a record with another sessionId and messageCount
\* 0, and leaves the record of every other key as it was.
C9_NewSessionFrame ==
  [][\A k \in Keys :
       NewSessionCmd(k)
         => /\ disk'.files[k].sessionId # disk.files[k].sessionId
            /\ disk'.files[k].messageCount = 0
            /\ \A j \in Keys \ {k} : disk'.files[j] = disk.files[j]]_vars

\* Key k was reset (its record is fresh and no getOrCreateSession has
\* returned it yet) after it had a session with messages, while another key
\* has a session.
C9_Witness ==
  \E k \in Keys : \E j \in Keys \ {k} :
    /\ disk.files[k] # NoSession /\ disk.files[k].sessionId < 100
    /\ lastGot[k] = 0
    /\ \E t \in TaskIds : tasks[t].key = k /\ tasks[t].promise = "resolved"
                          /\ ~tasks[t].value.isError
    /\ disk.files[j] # NoSession

\* The final records of an output, and the last of them (the subprocess
\* emits one; were there several, each overwrites what the one before set).
Finals(stdout) == {i \in 1..Len(stdout) : stdout[i].type = "result"}
LastFinal(stdout) ==
  stdout[CHOOSE i \in Finals(stdout) : \A j \in Finals(stdout) : j <= i]

\* C10: a final record is authoritative.  When the output holds a final
\* record with non-empty reply text, the result text is that reply text,
\* whatever assistant text was accumulated, and isError, sessionId (the
\* caller's id when the record names none), durationMs and permissionDenials
\* are those of the record.
C10_FinalRecordWins ==
  (pout # NoResult /\ pin.out.event = "close" /\ Finals(pin.out.stdout) # {})
    => LET final == LastFinal(pin.out.stdout)
       IN final.result # << >>
            => /\ pout.result = final.result
               /\ pout.isError = final.is_error
               /\ pout.sessionId =
                    IF final.session_id # 0 THEN final.session_id ELSE pin.sessionId
               /\ pout.durationMs = final.duration_ms
               /\ pout.permissionDenials = final.permission_denials

\* Exit status 0, assistant text "hi", then a final record with result
\* "hello" and no error flag: the result is "hello", not an error.
C10_Witness ==
  /\ pin.out.code = 0
  /\ pin.out.stdout = << AssistantLine(<< TextBlock(T("hi")) >>),
                         ResultLine(T("hello"), 0, 0, FALSE, << >>) >>
  /\ pout.result = T("hello")
  /\ ~pout.isError

\* The text of the text blocks of one assistant record, in order.
RECURSIVE BlockTexts(_)
BlockTexts(content) ==
  IF content = << >> THEN << >>
  ELSE (IF Head(content).type = "text" THEN Head(content).text ELSE << >>)
       \o BlockTexts(Tail(content))

\* The free-text fragments of an output: the text of all its assistant
\* records, in arrival order.
RECURSIVE Fragments(_)
Fragments(stdout) ==
  IF stdout = << >> THEN << >>
  ELSE (IF Head(stdout).type = "assistant" THEN BlockTexts(Head(stdout).content)
        ELSE << >>) \o Fragments(Tail(stdout))

\* spawnClaude has resolved after a close event.
Closed == pout # NoResult /\ pin.out.event = "close"

\* The timer fired, fragments were emitted and no final record.
TimedOutWithText ==
  /\ Closed /\ pin.out.wasTimedOut
  /\ Finals(pin.out.stdout) = {} /\ Fragments(pin.out.stdout) # << >>

\* C11 (amended): timeout with partial text.  The result is an error whose
\* text is the timeout marker followed by the first TIMEOUT_SLICE characters
\* of the accumulated fragments (all of them when they are no longer).
C11_TimeoutPartial ==
  TimedOutWithText
    => /\ pout.isError
       /\ pout.result = T("(Timed out - partial response below)")
                          \o Slice(Fragments(pin.out.stdout), TIMEOUT_SLICE)

\* C11 (the claim as stated): the text holds the accumulated fragments after
\* the marker.
C11_AsStated ==
  TimedOutWithText
    => /\ pout.isError
       /\ pout.result = T("(Timed out - partial response below)")
                          \o Fragments(pin.out.stdout)

\* The process was killed by the timer after a tool call and the text
\* "working on it": the result is the marker followed by that text.
C11_Witness ==
  /\ TimedOutWithText /\ pin.out.code = Killed
  /\ pin.out.stdout =
       << AssistantLine(<< ToolBlock("Read"), TextBlock(T("working on it")) >>) >>
  /\ pout.isError
  /\ Includes(pout.result, "(Timed out - partial response below)")
  /\ Includes(pout.result, "working on it")

\* C12 (amended): an invocation in which the safety timer fired and whose
\* output holds no final record returns an error result, whatever else the
\* subprocess wrote and whatever its exit status.
C12_TimeoutIsError ==
  (Closed /\ pin.out.wasTimedOut /\ Finals(pin.out.stdout) = {}) => pout.isError

\* C12 (the claim as stated): every invocation in which the safety timer
\* fired returns an error result, whatever the output.
C12_AsStated == (Closed /\ pin.out.wasTimedOut) => pout.isError

\* The timer fired after an unreadable line and the text "hi"; the process
\* ended with status 0; the result is an error.
C12_Witness ==
  /\ Closed /\ pin.out.wasTimedOut /\ pin.out.code = 0
  /\ pin.out.stdout = << BadLine, AssistantLine(<< TextBlock(T("hi")) >>) >>
  /\ pout.isError

\* The terminal outcomes of one spawn that are failures: the spawn error, the
\* timeout and the output without anything decodable (both without a final
\* record), and the non-zero exit without output.
FailureOutcome(out) ==
  \/ out.event = "error"
  \/ /\ out.event = "close"
     /\ \/ out.wasTimedOut /\ Finals(out.stdout) = {}
        \/ out.code # 0 /\ out.stdout = << >>
        \/ Finals(out.stdout) = {} /\ Fragments(out.stdout) = << >>

\* The outcomes the value of spawnClaude is examined on: every exit status,
\* standard error and timer flag with every output of up to OutcomeLines
\* lines, and the spawn error.
OutcomeLines == 2

Outcomes ==
  { ProcOutput("close", code, stdout, stderr, timedOut) :
      code \in {0, 1, Killed},
      stdout \in Streams(OutcomeLines),
      stderr \in {<< >>, T("already in use")}, timedOut \in BOOLEAN }
  \cup { OutSpawnError }

\* Whatever the outcome, spawnClaude's value has a text, and it is an error
\* result for every failure outcome.
OutcomesDelivered ==
  \A out \in Outcomes :
    /\ spawnClaude(5, out).result # << >>
    /\ FailureOutcome(out) => spawnClaude(5, out).isError

Alive(k) == { << t, Len(tasks[t].modes) >> : t \in Running(k) }

\* C14: at most one active subprocess per key, at any time.
C14_OneSubprocessPerKey == \A k \in Keys : Cardinality(Alive(k)) <= 1

\* The retry subprocess of a task of k is alive, a later message of k is
\* waiting, and a subprocess of the other key is alive as well.
C14_Witness ==
  \E k \in Keys : \E j \in Keys \ {k} :
    /\ \E t \in Running(k) : << t, 2 >> \in Alive(k)
    /\ Queued(k) # {}
    /\ Alive(j) # {}

\* C15 (the claim as stated): serial-section discipline.  No access to the
\* session of key k (here the /new and /status handlers' calls of newSession
\* and getSessionStatus) happens while a task of k is executing.
C15_SerialSection ==
  [][\A k \in Keys :
       (NewSessionCmd(k) \/ StatusCmd(k)) => Running(k) = {}]_vars

\* C16: a new-session request during an invocation.  The /new handler
\* leaves every task as it is (the running one goes on); a task keeps the
\* sessionId it captured when it started, through its retry and up to its
\* end, where that id is the one marked active; and a task that starts uses
\* the sessionId its key has at that moment, so after a reset the new one.
C16_ResetDuringInvocation ==
  [][/\ \A k \in Keys : NewSessionCmd(k) => tasks' = tasks
     /\ \A t \in TaskIds :
          /\ (tasks[t].phase \in {"none", "queued"} /\ tasks'[t].phase = "running")
               => tasks'[t].session = disk'.files[tasks'[t].key].sessionId
          /\ (tasks[t].phase = "running" /\ tasks'[t].phase = "running")
               => tasks'[t].session = tasks[t].session
          /\ (tasks[t].phase = "running" /\ tasks'[t].promise = "resolved")
               => activeSessions' =
                    IF tasks'[t].value.isError THEN activeSessions
                    ELSE activeSessions \cup {tasks[t].session}]_vars

\* The key was reset while its first invocation was running: that invocation
\* finished with the old id (now marked active, and no longer the key's),
\* and the task started afterwards runs with the key's new id.
C16_Witness ==
  \E t1, t2 \in TaskIds :
    /\ t1 < t2 /\ tasks[t1].key = tasks[t2].key
    /\ tasks[t1].promise = "resolved" /\ ~tasks[t1].value.isError
    /\ tasks[t2].phase = "running"
    /\ tasks[t2].session = disk.files[tasks[t2].key].sessionId
    /\ tasks[t2].session \notin activeSessions
    /\ disk.files[tasks[t2].key].messageCount = 1
    /\ \E old \in activeSessions : old < 100 /\ old # tasks[t2].session

\* A line that parses.
WellFormed(line) == line.type # "bad"

\* The names of the tools invoked in one assistant record, in order.
RECURSIVE BlockTools(_)
BlockTools(content) ==
  IF content = << >> THEN << >>
  ELSE (IF Head(content).type = "tool_use" THEN << Head(content).name >> ELSE << >>)
       \o BlockTools(Tail(content))

\* The capability invocations of an output, in arrival order.
RECURSIVE Invocations(_)
Invocations(stdout) ==
  IF stdout = << >> THEN << >>
  ELSE (IF Head(stdout).type = "assistant" THEN BlockTools(Head(stdout).content)
        ELSE << >>) \o Invocations(Tail(stdout))

\* The close handler reads the lines (it does not return at once for a
\* non-zero exit status with empty output).
Decoded == Closed /\ ~(pin.out.code # 0 /\ pin.out.stdout = << >>)

C18_NonZeroExitNoOutput ==
  (Closed /\ pin.out.code # 0 /\ pin.out.stdout = << >>)
    => pout = ClaudeResult(
                T("Error: ") \o
                  (IF pin.out.stderr # << >> THEN Slice(pin.out.stderr, ERROR_SLICE)
                   ELSE T("Claude exited with code ")
                          \o (IF pin.out.code = 1 THEN T("1") ELSE T("null"))),
                pin.sessionId, 0, TRUE, << >>, << >>)

\* The process was ended by a signal with nothing on either stream: the
\* text is the generic message.
C18_Witness ==
  /\ Closed /\ pin.out.code = Killed
  /\ pin.out.stdout = << >> /\ pin.out.stderr = << >>
  /\ pout.isError
  /\ pout.result = T("Error: ") \o T("Claude exited with code ") \o T("null")

\* The lines were read, none is a final record, and the timer did not fire.
NoFinalNoTimeout ==
  Decoded /\ Finals(pin.out.stdout) = {} /\ ~pin.out.wasTimedOut

\* C19 (amended): no final record and no timeout.  With assistant text the
\* result text is its first FALLBACK_SLICE characters (all of it when it is
\* no longer) and the result is not an error; without any, the result is the
\* generic "no response" message and an error.  The text is never made of
\* the records themselves.
C19_Fallback ==
  NoFinalNoTimeout
    => IF Fragments(pin.out.stdout) # << >>
       THEN /\ pout.result = Slice(Fragments(pin.out.stdout), FALLBACK_SLICE)
            /\ ~pout.isError
       ELSE /\ pout.result = T("(No response received)")
            /\ pout.isError

\* C19 (the claim as stated): the result text is the accumulated assistant
\* text when there is any.
C19_AsStated ==
  NoFinalNoTimeout
    => IF Fragments(pin.out.stdout) # << >>
       THEN pout.result = Fragments(pin.out.stdout)
       ELSE /\ pout.result = T("(No response received)")
            /\ pout.isError

\* Exit status 0 and an output of a system record and an unreadable line:
\* the generic message, as an error.
C19_Witness ==
  /\ NoFinalNoTimeout /\ pin.out.code = 0
  /\ pin.out.stdout = << SystemLine, BadLine >>
  /\ pout.result = T("(No response received)")
  /\ pout.isError

\* C20: mode selection of the first attempt.  The first spawn of a runClaude
\* call is made with --session-id when the caller passed isFirstMessage =
\* TRUE and with --resume otherwise, and with the caller's session id.
C20_FirstAttemptMode ==
  \A t \in TaskIds :
    tasks[t].phase = "running"
      => SessionArgs(tasks[t].session, tasks[t].modes[1]) =
           IF tasks[t].isFirst THEN << "--session-id", tasks[t].session >>
           ELSE << "--resume", tasks[t].session >>

\* Two invocations are running: one is the first of its session (create
\* mode), the other is for a session with earlier messages (resume mode).
C20_Witness ==
  \E t1, t2 \in TaskIds :
    /\ tasks[t1].phase = "running" /\ tasks[t1].isFirst
    /\ tasks[t1].modes[1] = FALSE
    /\ tasks[t2].phase = "running" /\ ~tasks[t2].isFirst
    /\ tasks[t2].modes[1] = TRUE

\* C21 (the claim as stated): a write failure propagates.  A call in which
\* a write failed throws, and returns no session.
C21_WriteFailurePropagates ==
  (store.done /\ store.failed) => (store.threw /\ store.ret = NoSession)


\* Every subprocess ends (at the latest when the safety timer kills it), so
\* every task that has started terminates.
SpecLive ==
  InitFirstRun /\ [][NextMessages]_vars /\ \A k \in Keys : WF_vars(ProcEndOf(k))

\* C22: queue liveness.  If every started task terminates, then again and
\* again no promise is pending, so every task handed to enqueue is settled,
\* and it is settled only after it started and ended; a settled promise
\* keeps its state and its value (it settles once); and a key with a
\* waiting or executing task has a worker (enqueue on a key without one
\* starts one).
C22_QueueLiveness ==
  /\ []<>(\A t \in TaskIds : tasks[t].promise # "pending")
  /\ [](\A t \in TaskIds : Settled(t) => tasks[t].phase = "done")
  /\ [][\A t \in TaskIds :
          Settled(t) => /\ tasks'[t].promise = tasks[t].promise
                        /\ tasks'[t].value = tasks[t].value]_vars
  /\ [](\A k \in Keys : (Queued(k) # {} \/ Running(k) # {}) <=> Lock(k) \in processing)

\* A worker drained its key (two tasks settled, one of them having waited
\* behind the other), left, and a later enqueue on the key started a new
\* worker whose task is executing.
C22_Witness ==
  \E t1, t2, t3 \in Enqueued :
    /\ t1 < t2 /\ t2 < t3
    /\ tasks[t1].key = tasks[t2].key /\ tasks[t2].key = tasks[t3].key
    /\ Settled(t1) /\ Settled(t2)
    /\ tasks[t3].phase = "running" /\ Lock(tasks[t3].key) \in processing
    /\ Queued(tasks[t3].key) = {}

\* The tasks that were invoked with tools beyond the baseline.
Granted == {u \in TaskIds : perm.handler[u].extraTools # {}}

\* C23 (the claim as stated): escalation targets the next invocation.  An
\* invocation of key k that is given extra tools is the invocation of k
\* made next after the invocation whose denial it was given.
C23_EscalationNext ==
  \A k \in Keys : \A i \in DOMAIN perm.started[k] :
    perm.started[k][i] \in Granted
      => (i > 1 /\ perm.started[k][i - 1] = perm.handler[perm.started[k][i]].by)

\* C24: one-turn escalation.  A task is given tools beyond ALLOWED_TOOLS
\* only if its message was an approval while a denial of its key was
\* pending, and then exactly the tool names of that denial (a completed
\* invocation of the same key that failed with denials); the message
\* consumed the entry, so no two tasks are granted the same denial.
C24_OneTurnEscalation ==
  /\ \A u \in Granted :
       LET h == perm.handler[u]
       IN /\ h.state # "replied" => h.text = " OK "
          /\ h.by \in TaskIds
          /\ perm.handler[h.by].key = h.key
          /\ tasks[h.by].phase = "done"
          /\ PromptsForPermission(tasks[h.by].value)
          /\ h.extraTools = deniedToolNames(tasks[h.by].value.permissionDenials)
          /\ AllowedToolsArg(h.extraTools) = ALLOWED_TOOLS \cup h.extraTools
  /\ \A u \in TaskIds \ Granted :
       AllowedToolsArg(perm.handler[u].extraTools) = ALLOWED_TOOLS
  /\ \A u1, u2 \in Granted : perm.handler[u1].by = perm.handler[u2].by => u1 = u2

\* A task runs with the two tools of a denial, and a later message of the
\* same key, handled while nothing was pending, is invoked with the
\* baseline only.
C24_Witness ==
  \E u1, u2 \in TaskIds :
    /\ u1 < u2
    /\ perm.handler[u1].extraTools = {"KillShell", "Bash"}
    /\ tasks[u1].phase = "done"
    /\ perm.handler[u2].key = perm.handler[u1].key
    /\ perm.handler[u2].extraTools = {}
    /\ tasks[u2].phase = "running"

\* C25 (the claim as stated): update deduplication.  For every examined
\* update id, across deliveries, restarts and re-deliveries, the handlers
\* call processAndRespond at most once.
C25_AtMostOnce == \A u \in Probes : dd.handed[u] <= 1

\* The runClaude calls made for email e.
RunsOf(e) == {i \in DOMAIN em.runs : em.runs[i].email = e}

\* C26 (the claim as stated): email at-most-once.  Each Gmail message id
\* leads to at most one Claude invocation (and so to at most one reply),
\* whenever the poll timer fires.
C26_EmailAtMostOnce == \A e \in Emails : Cardinality(RunsOf(e)) <= 1

\* C27 (the claim as stated): email thread continuity.  The invocation made
\* for a reply uses the sessionId of the invocation made before it for the
\* email it replies to, and creates no session.
C27_ThreadContinuity ==
  \A j \in DOMAIN em.runs :
    LET r == em.runs[j]
        o == em.mail[r.email].replyTo
        before == {i \in RunsOf(o) : i < j}
    IN (o # 0 /\ before # {})
         => /\ ~r.created
            /\ \A i \in before : (\A h \in before : h <= i)
                                   => r.sessionId = em.runs[i].sessionId

\* C28: chat allow-list.  The handling of an update whose chat id is not in
\* the allow-list (or is missing) changes neither the queues and their
\* tasks (no enqueue, no subprocess) nor the session files and the set of
\* active sessions (no creation, reset or increment).
C28_AllowList ==
  [][(nextUpdate' # nextUpdate /\ al' \notin allowedChatIds)
       => /\ queues' = queues /\ processing' = processing /\ tasks' = tasks
          /\ disk' = disk /\ activeSessions' = activeSessions]_vars

\* An update from a chat outside the list was the last one handled, after
\* updates of the allowed chat had started an invocation and created a
\* session.
C28_Witness ==
  /\ al = 222
  /\ \E k \in Keys : Running(k) # {} /\ disk.files[k] # NoSession

\* The chunks put together again.
RECURSIVE Joined(_)
Joined(chunks) ==
  IF chunks = << >> THEN << >> ELSE Head(chunks) \o Joined(Tail(chunks))

\* The same characters written with the fewest runs.
RECURSIVE Merged(_)
Merged(text) ==
  IF Len(text) < 2 THEN text
  ELSE IF text[1].c = text[2].c
  THEN Merged(<< [c |-> text[1].c, n |-> text[1].n + text[2].n] >>
                \o SubSeq(text, 3, Len(text)))
  ELSE << text[1] >> \o Merged(Tail(text))

\* C29: splitMessage returns (the call ends for every input), every chunk
\* has at most 4096 characters, the chunks in order are the input text
\* character for character, and every chunk but the last is longer than
\* half the limit (so the loop makes progress).
C29_SplitMessage ==
  sp.done =>
    /\ sp.chunks # << >>
    /\ \A i \in DOMAIN sp.chunks : TextLength(sp.chunks[i]) <= TELEGRAM_MAX_LENGTH
    /\ Merged(Joined(sp.chunks)) = Merged(sp.text)
    /\ \A i \in DOMAIN sp.chunks :
         i < Len(sp.chunks) => 2 * TextLength(sp.chunks[i]) > TELEGRAM_MAX_LENGTH

\* A text was split at a newline: a chunk shorter than the limit is followed
\* by a chunk that starts with the newline.
C29_Witness ==
  /\ sp.done
  /\ \E i \in DOMAIN sp.chunks :
       /\ i < Len(sp.chunks)
       /\ TextLength(sp.chunks[i]) < TELEGRAM_MAX_LENGTH
       /\ Head(sp.chunks[i + 1]).c = "nl"

\* The timer fired, no final record was read and no fragment accumulated.
TimedOutNoText ==
  /\ Closed /\ pin.out.wasTimedOut
  /\ Finals(pin.out.stdout) = {} /\ Fragments(pin.out.stdout) = << >>

\* C30: timeout without text.  When the timer has ended the subprocess and
\* no free-text fragment was accumulated, the result text is the generic
\* timed-out message, whether or not anything was written to standard
\* output.
C30_TimeoutNoText ==
  TimedOutNoText => pout.result = T("(Timed out with no response text)")

\* C31: resume after a timeout.  When an invocation ends in a timeout and
\* the next turn of the same key starts with the same session, the first
\* spawn of that turn is made in resume mode, also when the timed-out
\* invocation was the first one of the session.
C31_ResumeAfterTimeout ==
  [][\A t, u \in TaskIds :
       ( /\ tasks[t].phase = "running" /\ tasks'[t].phase = "done"
         /\ tasks'[t].value = spawnClaude(tasks[t].session, OutTimeout)
         /\ tasks[u].phase = "queued" /\ tasks'[u].phase = "running"
         /\ tasks'[u].session = tasks[t].session )
       => tasks'[u].modes[1] = TRUE]_vars

(***************************************************************************)
(* One subprocess with its progress timer (claude.ts:139-160, 170-213):    *)
(* data events append to the stdout buffer, the interval timer calls the   *)
(* progress sink, the close event stops the timer and reads the buffer.    *)
(* The chunks are whole lines.  elapsedMin is not modelled.                *)
(***************************************************************************)
MaxChunks == 3

MaxTicks == 2

ProgressChunks ==
  { BadLine,
    AssistantLine(<< TextBlock(T("hi")) >>),
    AssistantLine(<< ToolBlock("Read"), TextBlock(T("working on it")) >>),
    AssistantLine(<< ToolBlock("Bash"), ToolBlock("Read") >>) }

\* proc.stdout.on("data"): stdout += chunk.toString()
stdoutData(p, chunk) == [p EXCEPT !.stdout = Append(@, chunk)]

\* The interval callback: onProgress({ elapsedMin, toolCallCount:
\* progressToolCount }).
progressTick(p) ==
  [p EXCEPT !.reports =
     Append(@, [toolCallCount |-> p.progressToolCount,
                emitted |-> Len(Invocations(p.stdout))])]

\* proc.on("close"): clearInterval, then (unless the exit status is not 0
\* and nothing was output) the loop over the lines, which sets
\* progressToolCount at every tool-use block.
progressClose(p, code) ==
  LET toolCalls == ParseLines(ParseStart(0), p.stdout, 0).toolCalls
  IN [p EXCEPT !.state = "closed",
               !.progressToolCount =
                  IF (code # 0 /\ p.stdout = << >>) \/ toolCalls = << >>
                  THEN @ ELSE Len(toolCalls)]

InitProgress ==
  /\ SystemIdle
  /\ store = NoStoreCall /\ perm = NoPerm /\ dd = NoDedup /\ em = NoEmail
  /\ al = NoChat /\ sp = NoSplit
  /\ pg = [NoProgress EXCEPT !.state = "running"]

ProgressUnchanged ==
  UNCHANGED << queues, processing, tasks, disk, activeSessions, lastGot,
               nextUpdate, pin, pout, store, perm, dd, em, al, sp >>

ProgressData(chunk) ==
  /\ pg.state = "running" /\ Len(pg.stdout) < MaxChunks
  /\ pg' = stdoutData(pg, chunk)
  /\ ProgressUnchanged

ProgressTick ==
  /\ pg.state = "running" /\ Len(pg.reports) < MaxTicks
  /\ pg' = progressTick(pg)
  /\ ProgressUnchanged

ProgressClose(code) ==
  /\ pg.state = "running"
  /\ pg' = progressClose(pg, code)
  /\ ProgressUnchanged

NextProgress ==
  \/ \E chunk \in ProgressChunks : ProgressData(chunk)
  \/ ProgressTick
  \/ \E code \in {0, 1, Killed} : ProgressClose(code)

SpecProgress == InitProgress /\ [][NextProgress]_vars

\* C32: progress reporting.  Every call of the progress sink carries the
\* number of tool-use blocks the subprocess had output before the call.
C32_ProgressCount ==
  \A i \in DOMAIN pg.reports : pg.reports[i].toolCallCount = pg.reports[i].emitted

\* C33: incrementMessage.  On a key without a session record the call
\* creates no record and leaves the store as it was; on a key with a record
\* it adds one to messageCount and changes nothing else.
C33_IncrementMessage ==
  [][(store.op = "incrementMessage" /\ ~store.done /\ store'.done)
       => LET before == loadState(store.disk, store.key)
          IN IF before = NoSession
             THEN store'.disk.files = store.disk.files
             ELSE \/ store'.threw /\ store'.disk.files = store.disk.files
                  \/ /\ ~store'.threw
                     /\ store'.disk.files =
                          [store.disk.files EXCEPT ![store.key] =
                             [before EXCEPT !.messageCount = @ + 1]]]_vars

\* The step writes the legacy record into the record of key k.
ImportsLegacy(k) ==
  /\ disk.legacy # NoSession
  /\ disk.files[k].sessionId # disk.legacy.sessionId
  /\ disk'.files[k].sessionId = disk.legacy.sessionId

\* C34: legacy migration.  The legacy record is written into a per-key
\* record only for the key "general" and only when that key has no record;
\* a key that has a record never loses it, so the import happens at most
\* once and never after a reset or a call for "general"; the legacy record
\* itself is never changed.
C34_LegacyMigration ==
  [][/\ \A k \in Keys :
          /\ ImportsLegacy(k)
               => /\ k = "general" /\ disk.files[k] = NoSession
                  /\ disk'.files[k] \in {disk.legacy,
                                         [disk.legacy EXCEPT !.messageCount = @ + 1]}
          /\ disk.files[k] # NoSession => disk'.files[k] # NoSession
     /\ disk'.legacy = disk.legacy]_vars

\* The legacy session was imported and used for "general", the key was then
\* reset, and a later call for it returned the new session.
C34_Witness ==
  /\ disk.legacy # NoSession
  /\ disk.legacy.sessionId \in activeSessions
  /\ disk.files["general"].sessionId \notin {0, disk.legacy.sessionId}
  /\ lastGot["general"] = disk.files["general"].sessionId

\* The keys queueLength is asked about: the topics and the empty string,
\* for which nothing was ever enqueued.
QueryKeys == Keys \cup {""}

\* C35: queueLength.  For every string key the call returns the number of
\* tasks of that key that are enqueued and not yet started, and the call
\* without a key returns the sum of these numbers over all keys.
C35_QueueLength ==
  /\ \A k \in QueryKeys :
       queueLength(St, k) =
         Cardinality({t \in TaskIds : tasks[t].key = k /\ tasks[t].phase = "queued"})
  /\ queueLengthAll(St) = Cardinality({t \in TaskIds : tasks[t].phase = "queued"})

\* C36 (amended): a key has a worker exactly while it has a task that is
\* running or waiting.  The running task has left the FIFO, so while the
\* last task of a key runs its FIFO is empty and its worker is active.  The
\* key is in the queues map exactly while it is in the processing set, and a
\* key all of whose tasks have settled is in neither.
C36_NoIdleWorker ==
  \A k \in Keys :
    /\ Lock(k) \in processing <=> (Running(k) # {} \/ Queued(k) # {})
    /\ k \in DOMAIN queues <=> Lock(k) \in processing
    /\ Len(QueueOf(St, k)) = Cardinality(Queued(k))
    /\ (\A t \in TaskIds : tasks[t].key = k => Settled(t))
         => (k \notin DOMAIN queues /\ Lock(k) \notin processing)

\* C36 (the claim as stated): a key is in the processing set only while its
\* FIFO holds pending tasks.
C36_AsStated ==
  \A k \in Keys : Lock(k) \in processing => QueueOf(St, k) # << >>

\* One key has had tasks and all of them have settled: it is gone from the
\* queues map and from the processing set; the last task of another key is
\* running with an empty FIFO.
C36_Witness ==
  \E k \in Keys : \E j \in Keys \ {k} :
    /\ \E t \in TaskIds : tasks[t].key = k
    /\ \A t \in TaskIds : tasks[t].key = k => Settled(t)
    /\ k \notin DOMAIN queues /\ Lock(k) \notin processing
    /\ Running(j) # {} /\ QueueOf(St, j) = << >> /\ Lock(j) \in processing

C38_MarkedAfterHandoff ==
  \A u \in Probes : isAlreadyProcessed(dd.file, u) => dd.enqueued[u] > 0

\* C39: messageCount counts the successes of the current session.  The
\* persisted messageCount of a key's session changes only in a step in
\* which an invocation made with that session's id completes without error,
\* and then by one; a record with another sessionId starts at 0 (or is the
\* imported legacy record).
C39_CountOfCurrentSession ==
  [][\A k \in Keys :
       IF disk'.files[k].sessionId = disk.files[k].sessionId
       THEN disk'.files[k].messageCount # disk.files[k].messageCount
              => \E t \in TaskIds :
                   /\ tasks[t].key = k /\ tasks[t].phase = "running"
                   /\ tasks'[t].promise = "resolved" /\ ~tasks'[t].value.isError
                   /\ tasks[t].session = disk.files[k].sessionId
                   /\ disk'.files[k].messageCount = disk.files[k].messageCount + 1
       ELSE \/ disk'.files[k].messageCount = 0
            \/ (Imports(disk, k) /\ disk.files[k] = NoSession)]_vars

(***************************************************************************)
(* The system with a subprocess whose final record reports a session id    *)
(* other than the one it was started with.                                 *)
(***************************************************************************)
OutOtherSession ==
  ProcOutput("close", 0,
             << AssistantLine(<< TextBlock(T("hi")) >>),
                ResultLine(T("hello"), 999, 1200, FALSE, << >>) >>,
             << >>, FALSE)

ReportedOutputs == {OutOk, OutOtherSession, OutTimeout}

NextReported ==
  \/ \E k \in Keys, bad \in BOOLEAN : Enqueue(k, bad)
  \/ \E t \in TaskIds, out \in ReportedOutputs : ProcEnd(t, out)
  \/ \E k \in Keys : NewSessionCmd(k)
  \/ \E k \in Keys : StatusCmd(k)

SpecReported == Init /\ [][NextReported]_vars

\* C40: the stored sessionId is not changed by a completing invocation.  A
\* step in which an invocation completes, with or without error and whatever
\* session id its final record reports, leaves the sessionId stored for
\* every key as it was; the stored sessionId of a key changes only when the
\* key had no record (first access) or by newSession.
C40_SessionIdFrame ==
  [][/\ (\E t \in TaskIds : tasks[t].phase = "running" /\ tasks'[t].phase = "done")
          => \A k \in Keys : disk'.files[k].sessionId = disk.files[k].sessionId
     /\ \A k \in Keys :
          disk'.files[k].sessionId # disk.files[k].sessionId
            => (disk.files[k] = NoSession \/ NewSessionCmd(k))]_vars

\* An invocation completed without error with a final record that reported
\* session 999; the key still has the session the invocation was made with,
\* now with one message counted.
C40_Witness ==
  \E t \in TaskIds :
    /\ tasks[t].promise = "resolved"
    /\ tasks[t].value.sessionId = 999
    /\ disk.files[tasks[t].key].sessionId \in activeSessions
    /\ disk.files[tasks[t].key].sessionId # 999
    /\ disk.files[tasks[t].key].messageCount = 1

====
